---- MODULE Spec2Model ----
(***************************************************************************)
(* Model of the frontmatters repository:                                   *)
(*   - the six-stage organizational workflow of                            *)
(*     frontmatters/agents/organizational_workflow.py, and                 *)
(*   - the tag statistics and the report of                                *)
(*     frontmatters/commands/organize.py.                                  *)
(***************************************************************************)
EXTENDS Integers, Sequences, FiniteSets, TLC

(***************************************************************************)
(* Bounds of the model.                                                    *)
(***************************************************************************)
\* the largest number of markdown documents of a tree handed to the workflow
MaxDocs == 2
\* the largest number of markdown files handed to the OrganizationAnalyzer
MaxFiles == 3

VARIABLES
    \* ---- OrganizationalWorkflow (one run of workflow.arun) ----
    documents,    \* the list _extract_documents_from_tree returns
    data,         \* the envelope: the content of the last StepOutput, a dict
    stage,        \* how many steps of the list the runner has entered
    pc,           \* "ready" | "in_step" | "done" | "failed"
    acc,          \* the list the running step is building (analyses, ...)
    started,      \* history: the steps entered so far, in order
    failCause,    \* the exception that ended the run ("" when none)
    lastResp,     \* kind of the most recent provider response ("" when none)
    \* ---- OrganizationAnalyzer and the report ----
    tree_data,    \* the tree: json.load of the JSON file the command is given
    files,        \* analyzer.files: list of FileAnalysis
    tag_analysis, \* analyzer.tag_analysis: the TagAnalysis entries in dict order
    category_rules, \* analyzer.category_rules: list of CategoryRule
    hashOrder,    \* this process's iteration order of a set of strings
    phase,        \* "new" | "extracted" | "failed" | "analyzed" | "reanalyzed" |
                  \* "ruled" | "reported"
    report,       \* the parts of the report generate_analysis_report builds
    previous,     \* the files and the report of the run of the command before this one
    \* ---- the tree command (commands/tree.py) ----
    directory,    \* the directory the command is given: its name, its path and
                  \* its entries in the order iterdir() yields them
    depth,        \* the --depth option
    output,       \* what the command has written: [json_output, tree_data, lines]
    \* ---- the filter command (commands/filter.py) ----
    md_files,     \* the markdown files os.walk meets, with their metadata
    options,      \* the --tag, --field and --in options as given
    matching_files, \* the list collect_matching_files returns
    \* ---- process_single_file (commands/add_description.py) ----
    post,         \* the file: its frontmatter metadata and its content
    force,        \* the --force option
    requests,     \* history: the descriptions requested from the provider
    \* ---- the prompt of RelationshipMapperAgent.map_relationships ----
    prompt,       \* per document: the current document and the other documents sent
    tool          \* where the command in use is: "idle" | "ready" | "shown" |
                  \* "loaded" | "filtered" | "processed" | "prompted"

wfVars == <<documents, data, stage, pc, acc, started, failCause, lastResp>>
orgVars == <<tree_data, files, tag_analysis, category_rules, hashOrder, phase, report,
            previous>>
toolVars == <<directory, depth, output, md_files, options, matching_files,
             post, force, requests, prompt, tool>>
vars == <<documents, data, stage, pc, acc, started, failCause, lastResp,
          tree_data, files, tag_analysis, category_rules, hashOrder, phase, report,
          previous,
          directory, depth, output, md_files, options, matching_files,
          post, force, requests, prompt, tool>>

(***************************************************************************)
(* The workflow: steps, envelope keys, opinions.                           *)
(***************************************************************************)
\* Step(name=...) of the steps list, in list order
StepNames == <<"Content Analysis", "Categorization", "Tagging",
               "Relationship Mapping", "Optimization", "Strategy Creation">>

\* the last step storing its strategy under the key of the step before it
StepKeys_shared == <<"content_analyses", "categorizations", "tagging_results",
                     "relationship_maps", "optimization", "optimization">>

\* the envelope key each step stores its output under
StepKeys == <<"content_analyses", "categorizations", "tagging_results",
              "relationship_maps", "optimization", "final_strategy">>

\* a steps list with Tagging put before Categorization
steps_reordered == <<1, 3, 2, 4, 5, 6>>

\* the steps list handed to Workflow(...): the executors in the order they run,
\* 1 content_analysis_step, 2 categorization_step, 3 tagging_step,
\* 4 relationship_mapping_step, 5 optimization_step, 6 strategy_creation_step
steps == <<1, 2, 3, 4, 5, 6>>

NumSteps == Len(StepNames)
PerDocSteps == {1, 2, 3, 4}

\* the executor the runner entered last
Running == steps[stage]

\* a dict without a 'path' key
NoPath == ""

DocPath(i) == "/docs/" \o ToString(i) \o ".md"

\* analysis.setdefault('path', doc['path']): keeps a 'path' the provider sent
SetPath_keep(op, p) == IF op.path = NoPath THEN [op EXCEPT !.path = p] ELSE op

\* analysis['path'] = doc['path']: sets or replaces the key
SetPath(op, p) == [op EXCEPT !.path = p]

\* The fallback dicts of the six agents (the except json.JSONDecodeError branches).
default_content_analysis ==
    [path |-> NoPath,
     content_summary |-> "Analysis failed - unable to parse content",
     technical_domain |-> "unknown",
     key_concepts |-> <<>>,
     confidence_score |-> 0,
     reasoning |-> "JSON parsing failed"]

default_categorization ==
    [path |-> NoPath,
     primary_category |-> "Uncategorized",
     alternative_categories |-> <<>>,
     category_rationale |-> "Categorization failed"]

default_tags ==
    [path |-> NoPath,
     primary_tags |-> <<>>,
     secondary_tags |-> <<>>,
     tag_rationale |-> "Tag generation failed"]

default_relationships ==
    [path |-> NoPath,
     strong_relationships |-> <<>>,
     weak_relationships |-> <<>>,
     content_clusters |-> <<>>,
     knowledge_gaps |-> <<>>]

default_optimization ==
    [tag_consolidation |-> <<>>,
     search_optimization |-> <<>>]

default_strategy ==
    [executive_summary |-> "Strategy creation failed",
     implementation_plan |-> <<>>,
     categorization_rules |-> <<>>]

DefaultOpinion(k) ==
    CASE k = 1 -> default_content_analysis
      [] k = 2 -> default_categorization
      [] k = 3 -> default_tags
      [] k = 4 -> default_relationships
      [] k = 5 -> default_optimization
      [] k = 6 -> default_strategy

\* The JSON objects a provider can answer with, per the schema of each prompt
\* ("Format as JSON"). A provider may put a 'path' key of its own into the
\* object. A document related to no other has every relationship list empty.
ProviderPaths == {NoPath, "/elsewhere.md"}

GenuineOpinions(k) ==
    CASE k = 1 ->
           {[path |-> p, content_summary |-> "summary", technical_domain |-> "AI",
             key_concepts |-> <<"concept">>, confidence_score |-> 85,
             reasoning |-> "reasoning"] : p \in ProviderPaths}
      [] k = 2 ->
           {[path |-> p, primary_category |-> "AI/Documentation",
             alternative_categories |-> <<"AI/Tutorials">>,
             category_rationale |-> "rationale"] : p \in ProviderPaths}
      [] k = 3 ->
           {[path |-> p, primary_tags |-> <<"tag1">>, secondary_tags |-> <<>>,
             tag_rationale |-> "rationale"] : p \in ProviderPaths}
      [] k = 4 ->
           {[path |-> p, strong_relationships |-> c, weak_relationships |-> <<>>,
             content_clusters |-> <<>>, knowledge_gaps |-> <<>>]
              : p \in ProviderPaths, c \in {<<>>, <<"path/to/doc">>}}
      [] k = 5 ->
           {[tag_consolidation |-> <<"merge">>, search_optimization |-> <<>>]}
      [] k = 6 ->
           {[executive_summary |-> "summary", implementation_plan |-> <<"phase 1">>,
             categorization_rules |-> <<>>]}

\* What one provider call can do: agent.arun raises; response.content is not JSON;
\* it is JSON but no object (a list); it is a JSON object.
Responses(k) ==
    {[kind |-> "raises"], [kind |-> "unparseable"], [kind |-> "nondict"]}
      \cup {[kind |-> "object", value |-> v] : v \in GenuineOpinions(k)}

\* json.loads(response.content) of a JSON list
JsonList == [is_list |-> TRUE]

\* An agent method: `response = await self.agent.arun(prompt)` is outside the
\* try, json.loads is inside it and only json.JSONDecodeError is caught.
\* The result is [exc |-> name of the exception that propagates ("" when none),
\* is_dict, value].
AgentCall(k, r) ==
    CASE r.kind = "raises"      -> [exc |-> "ProviderError", is_dict |-> FALSE]
      [] r.kind = "unparseable" -> [exc |-> "", is_dict |-> TRUE, value |-> DefaultOpinion(k)]
      [] r.kind = "nondict"     -> [exc |-> "", is_dict |-> FALSE, value |-> JsonList]
      [] r.kind = "object"      -> [exc |-> "", is_dict |-> TRUE, value |-> r.value]

analyze_content(r) == AgentCall(1, r)
categorize_document(r) == AgentCall(2, r)
suggest_tags(r) == AgentCall(3, r)
map_relationships(r) == AgentCall(4, r)
optimize_structure(r) == AgentCall(5, r)
create_strategy(r) == AgentCall(6, r)

Agent(k, r) ==
    CASE k = 1 -> analyze_content(r)
      [] k = 2 -> categorize_document(r)
      [] k = 3 -> suggest_tags(r)
      [] k = 4 -> map_relationships(r)
      [] k = 5 -> optimize_structure(r)
      [] k = 6 -> create_strategy(r)

\* data[key] = value on a dict
DictSet(d, key, value) ==
    [x \in DOMAIN d \cup {key} |-> IF x = key THEN value ELSE d[x]]

EmptyDict == [x \in {} |-> <<>>]

\* the value None, and json.load of the text "null"
None == [none |-> TRUE]

\* the list a per-document step iterates: documents (step 1),
\* data['content_analyses'] (steps 2, 3, 4)
Items(k) == IF k = 1 THEN documents ELSE data["content_analyses"]

\* an exception leaves the step: the run ends with it
Raise(cause) ==
    /\ pc' = "failed"
    /\ failCause' = cause
    /\ UNCHANGED <<documents, data, stage, acc>>

\* the runner calls the executor of step k with the previous step's content; the
\* executor parses it and reads the keys it indexes with data[...]
StepEnter(k) ==
    /\ pc = "ready"
    /\ stage < Len(steps)
    /\ steps[stage + 1] = k
    /\ started' = Append(started, k)
    /\ lastResp' = ""
    /\ IF k \in {2, 3, 4} /\ "content_analyses" \notin DOMAIN data
         THEN /\ pc' = "failed"
              /\ failCause' = "KeyError"
              /\ stage' = stage + 1
              /\ UNCHANGED <<documents, data, acc>>
         ELSE /\ pc' = "in_step"
              /\ stage' = stage + 1
              /\ acc' = <<>>
              /\ UNCHANGED <<documents, data, failCause>>
    /\ UNCHANGED orgVars
    /\ UNCHANGED toolVars

\* one iteration of the for loop of a per-document step: the provider call,
\* result['path'] = item['path'], list.append(result)
StepIterate(k) ==
    /\ pc = "in_step"
    /\ Running = k
    /\ Len(acc) < Len(Items(k))
    /\ \E r \in Responses(k) :
         LET item == Items(k)[Len(acc) + 1]
             res == Agent(k, r)
         IN  /\ lastResp' = r.kind
             /\ IF res.exc # ""
                  THEN Raise(res.exc)
                  ELSE IF ~res.is_dict
                  THEN Raise("TypeError")
                  ELSE /\ acc' = Append(acc, SetPath(res.value, item.path))
                       /\ UNCHANGED <<documents, data, stage, pc, failCause>>
    /\ UNCHANGED <<started>>
    /\ UNCHANGED orgVars
    /\ UNCHANGED toolVars

\* every step returning a new dict that holds its own key only
StepOutput_fresh(k, d, value) == DictSet(EmptyDict, StepKeys[k], value)

\* the content the step returns: step 1 returns a new dict, steps 2 to 4 store
\* their list into the parsed dict
StepOutput(k, d, value) ==
    IF k = 1 THEN DictSet(EmptyDict, StepKeys[k], value)
             ELSE DictSet(d, StepKeys[k], value)

\* the loop is over: return StepOutput(content=json.dumps(data))
StepReturn(k) ==
    /\ pc = "in_step"
    /\ Running = k
    /\ Len(acc) = Len(Items(k))
    /\ data' = StepOutput(k, data, acc)
    /\ pc' = IF stage = Len(steps) THEN "done" ELSE "ready"
    /\ acc' = <<>>
    /\ UNCHANGED <<documents, stage, started, failCause, lastResp>>
    /\ UNCHANGED orgVars
    /\ UNCHANGED toolVars

\* steps 5 and 6: one provider call on the envelope, the result stored as is
AggregateStep(k) ==
    /\ pc = "in_step"
    /\ Running = k
    /\ \E r \in Responses(k) :
         LET res == Agent(k, r)
         IN  /\ lastResp' = r.kind
             /\ IF res.exc # ""
                  THEN Raise(res.exc)
                  ELSE /\ data' = DictSet(data, StepKeys[k], res.value)
                       /\ pc' = IF stage = Len(steps) THEN "done" ELSE "ready"
                       /\ UNCHANGED <<documents, stage, acc, failCause>>
    /\ UNCHANGED <<started>>
    /\ UNCHANGED orgVars
    /\ UNCHANGED toolVars

content_analysis_step == StepEnter(1) \/ StepIterate(1) \/ StepReturn(1)
categorization_step == StepEnter(2) \/ StepIterate(2) \/ StepReturn(2)
tagging_step == StepEnter(3) \/ StepIterate(3) \/ StepReturn(3)
relationship_mapping_step == StepEnter(4) \/ StepIterate(4) \/ StepReturn(4)
optimization_step == StepEnter(5) \/ AggregateStep(5)
strategy_creation_step == StepEnter(6) \/ AggregateStep(6)

\* Workflow(steps=[...]).arun: the steps in list order, each fed the content of
\* the one before
WorkflowNext ==
    \/ content_analysis_step
    \/ categorization_step
    \/ tagging_step
    \/ relationship_mapping_step
    \/ optimization_step
    \/ strategy_creation_step

\* _extract_documents_from_tree: the documents of a tree with n markdown files,
\* met in ascending or in descending path order
DocumentLists ==
    {[i \in 1..n |-> [path |-> DocPath(i)]] : n \in 0..MaxDocs}
      \cup {[i \in 1..n |-> [path |-> DocPath(n + 1 - i)]] : n \in 2..MaxDocs}

\* no command of the command line is in use
ToolsIdle ==
    /\ directory = <<>>
    /\ depth = 0
    /\ output = <<>>
    /\ md_files = <<>>
    /\ options = <<>>
    /\ matching_files = <<>>
    /\ post = <<>>
    /\ force = FALSE
    /\ requests = <<>>
    /\ prompt = <<>>
    /\ tool = "idle"

OrgIdle ==
    /\ tree_data = EmptyDict
    /\ files = <<>>
    /\ tag_analysis = <<>>
    /\ category_rules = <<>>
    /\ previous = [ran |-> FALSE, files |-> <<>>, report |-> <<>>]
    /\ hashOrder = <<>>
    /\ phase = "idle"
    /\ report = <<>>

\* analyze(tree_json_path): the run starts on the tree's text with no step entered
WorkflowInit ==
    /\ documents \in DocumentLists
    /\ data = EmptyDict
    /\ stage = 0
    /\ pc = "ready"
    /\ acc = <<>>
    /\ started = <<>>
    /\ failCause = ""
    /\ lastResp = ""
    /\ OrgIdle
    /\ ToolsIdle

Spec == WorkflowInit /\ [][WorkflowNext]_vars

\* arun awaits one executor after the other and nothing else runs beside it: a
\* step that can be taken is taken
FairSpec == WorkflowInit /\ [][WorkflowNext]_vars /\ WF_vars(WorkflowNext)

(***************************************************************************)
(* Strings: str.lower, str.strip, `in`, str.endswith, pathlib parts.       *)
(***************************************************************************)
UpperCase == "ABCDEFGHIJKLMNOPQRSTUVWXYZ"
LowerCase == "abcdefghijklmnopqrstuvwxyz"

\* the i-th character of s, as a string
CharAt(s, i) == SubSeq(s, i, i)

\* the lower-case letter of every upper-case letter
LowerOf ==
    [c \in {CharAt(UpperCase, i) : i \in 1..Len(UpperCase)} |->
        CharAt(LowerCase, CHOOSE i \in 1..Len(UpperCase) : CharAt(UpperCase, i) = c)]

\* c.lower() of one character
LowerChar(c) == IF c \in DOMAIN LowerOf THEN LowerOf[c] ELSE c

\* s.lower()
RECURSIVE lower(_)
lower(s) ==
    IF s = "" THEN "" ELSE LowerChar(CharAt(s, 1)) \o lower(SubSeq(s, 2, Len(s)))

\* s.strip() of blanks
RECURSIVE strip(_)
strip(s) ==
    IF s = "" THEN ""
    ELSE IF CharAt(s, 1) = " " THEN strip(SubSeq(s, 2, Len(s)))
    ELSE IF CharAt(s, Len(s)) = " " THEN strip(SubSeq(s, 1, Len(s) - 1))
    ELSE s

\* `w in s` on strings
Contains(s, w) ==
    \E i \in 1..(Len(s) - Len(w) + 1) : SubSeq(s, i, i + Len(w) - 1) = w

\* any(word in s for word in words)
any_in(words, s) == \E w \in words : Contains(s, w)

\* s.endswith(w)
endswith(s, w) ==
    Len(s) >= Len(w) /\ SubSeq(s, Len(s) - Len(w) + 1, Len(s)) = w

\* the components of s between the "/": cur is the component being read
RECURSIVE SplitPath(_, _)
SplitPath(s, cur) ==
    IF s = "" THEN <<cur>>
    ELSE IF CharAt(s, 1) = "/" THEN <<cur>> \o SplitPath(SubSeq(s, 2, Len(s)), "")
    ELSE SplitPath(SubSeq(s, 2, Len(s)), cur \o CharAt(s, 1))

\* Path(p).parts: the root "/" of an absolute path, then the named components
\* ("" and "." are dropped)
PathParts(p) ==
    LET named == SelectSeq(SplitPath(p, ""), LAMBDA c : c # "" /\ c # ".")
    IN  IF p # "" /\ CharAt(p, 1) = "/" THEN <<"/">> \o named ELSE named

\* Path(p).parent.parts
ParentParts(p) ==
    LET ps == PathParts(p)
    IN  IF ps = <<>> \/ ps = <<"/">> THEN ps ELSE SubSeq(ps, 1, Len(ps) - 1)

(***************************************************************************)
(* OrganizationAnalyzer: the tree walk, the proposed tags, the content     *)
(* type, the tag statistics (analyze_tags), the rules and the report.      *)
(***************************************************************************)
\* The tag strings, in the order of Python's `<` on str, so that t1 < t2 on the
\* numbers is tag1 < tag2 on the strings. A tag is its number in this list.
TagName == <<" python ", "Python", "agent", "agents", "ai", "api", "blog",
             "configuration", "database", "documentation", "draft",
             "infrastructure", "javascript", "programming", "prompt", "prompts",
             "python", "research", "thread", "tools", "workflow", "workflows">>
Tags == 1..Len(TagName)

\* the tag of a string
Tag(name) == CHOOSE t \in Tags : TagName[t] = name

\* `if count >= 2` of analyze_tags
RelatedThreshold == 2
\* `if overlap >= 2` of generate_analysis_report
OverlapThreshold == 2
\* overlapping_tags[:5]
TopOverlaps == 5
\* the values of --min-freq tried (its default is 2)
MinFreqs == {1, 2}

\* the elements of a sequence
Range(sq) == {sq[i] : i \in 1..Len(sq)}

\* the ascending list of a set of tags
RECURSIVE Ascending(_)
Ascending(S) ==
    IF S = {} THEN <<>>
    ELSE LET m == CHOOSE x \in S : \A y \in S : x <= y
         IN  <<m>> \o Ascending(S \ {m})

\* the orders one process can iterate the strings of S in (hash randomisation)
HashOrders(S) ==
    {o \in [1..Cardinality(S) -> S] : \A t \in S : \E i \in DOMAIN o : o[i] = t}

\* `for tag in some_set`, list(some_set): the elements in this process's
\* iteration order
SetIter(S) == SelectSeq(hashOrder, LAMBDA t : t \in S)

\* the directory names _propose_tags turns into tags
DirectoryTags == {"ai", "agents", "prompts", "blog", "research", "workflows", "tools"}

\* _propose_tags: the set `tags` it builds; its caller gets list(tags)
_propose_tags(filename, directory_parts, description) ==
    LET filename_lower == lower(filename)
        desc_lower == lower(description)
        Add(cond, name) == IF cond THEN {Tag(name)} ELSE {}
    IN  {Tag(lower(directory_parts[i])) :
            i \in {j \in DOMAIN directory_parts : lower(directory_parts[j]) \in DirectoryTags}}
        \cup Add(any_in({"draft", "wip", "temp"}, filename_lower), "draft")
        \cup Add(any_in({"blog", "post", "article"}, filename_lower), "blog")
        \cup Add(any_in({"prompt", "system"}, filename_lower), "prompt")
        \cup Add(any_in({"agent", "bot"}, filename_lower), "agent")
        \cup Add(any_in({"workflow", "process"}, filename_lower), "workflow")
        \cup Add(any_in({"research", "analysis"}, filename_lower), "research")
        \cup Add(any_in({"thread", "conversation"}, filename_lower), "thread")
        \cup Add(any_in({"config", "settings"}, filename_lower), "configuration")
        \cup Add(any_in({"runbook", "guide", "tutorial"}, filename_lower), "documentation")
        \cup Add(description # ""
                   /\ any_in({"python", "javascript", "typescript", "rust", "go"}, desc_lower),
                 "programming")
        \cup Add(description # ""
                   /\ any_in({"docker", "kubernetes", "aws", "gcp", "azure"}, desc_lower),
                 "infrastructure")
        \cup Add(description # ""
                   /\ any_in({"api", "rest", "graphql", "endpoint"}, desc_lower),
                 "api")
        \cup Add(description # ""
                   /\ any_in({"database", "sql", "mongodb", "postgres"}, desc_lower),
                 "database")

\* the chain with the prompt check put before the blog check
_determine_content_type_prompt_first(filename, directory_parts, description) ==
    LET filename_lower == lower(filename)
        parts == Range(directory_parts)
    IN  IF "prompt" \in parts \/ Contains(filename_lower, "prompt") THEN "prompt"
        ELSE IF "blog" \in parts \/ any_in({"blog", "post", "article"}, filename_lower)
          THEN "blog"
        ELSE IF "agent" \in parts \/ Contains(filename_lower, "agent") THEN "agent"
        ELSE IF "workflow" \in parts \/ Contains(filename_lower, "workflow") THEN "workflow"
        ELSE IF "research" \in parts \/ Contains(filename_lower, "research") THEN "research"
        ELSE IF Contains(filename_lower, "thread") \/ Contains(filename_lower, "conversation")
          THEN "thread"
        ELSE IF any_in({"config", "settings"}, filename_lower) THEN "configuration"
        ELSE IF any_in({"readme", "guide", "tutorial", "doc"}, filename_lower)
          THEN "documentation"
        ELSE IF any_in({"draft", "wip", "temp"}, filename_lower) THEN "draft"
        ELSE "general"

\* _determine_content_type: the if/elif chain
_determine_content_type(filename, directory_parts, description) ==
    LET filename_lower == lower(filename)
        parts == Range(directory_parts)
    IN  IF "blog" \in parts \/ any_in({"blog", "post", "article"}, filename_lower)
          THEN "blog"
        ELSE IF "prompt" \in parts \/ Contains(filename_lower, "prompt") THEN "prompt"
        ELSE IF "agent" \in parts \/ Contains(filename_lower, "agent") THEN "agent"
        ELSE IF "workflow" \in parts \/ Contains(filename_lower, "workflow") THEN "workflow"
        ELSE IF "research" \in parts \/ Contains(filename_lower, "research") THEN "research"
        ELSE IF Contains(filename_lower, "thread") \/ Contains(filename_lower, "conversation")
          THEN "thread"
        ELSE IF any_in({"config", "settings"}, filename_lower) THEN "configuration"
        ELSE IF any_in({"readme", "guide", "tutorial", "doc"}, filename_lower)
          THEN "documentation"
        ELSE IF any_in({"draft", "wip", "temp"}, filename_lower) THEN "draft"
        ELSE "general"

\* A tree node is a dict: a record whose fields are the keys it has, among
\* type, name, path, title, frontmatter, children.
HasKey(d, key) == key \in DOMAIN d

\* node.get("type") == t
TypeIs(node, t) == HasKey(node, "type") /\ node.type = t

\* node.get("children", [])
Children(node) == IF HasKey(node, "children") THEN node.children ELSE <<>>

\* frontmatter.get("tags", []) kept if it is a list, [] otherwise: a tags value
\* is [is_list, items]
existing_tags_of(frontmatter) ==
    IF HasKey(frontmatter, "tags") /\ frontmatter.tags.is_list
      THEN frontmatter.tags.items
      ELSE <<>>

\* frontmatter.get("description", "")
description_of(frontmatter) ==
    IF HasKey(frontmatter, "description") THEN frontmatter.description ELSE ""

\* frontmatter = node.get("frontmatter", {})
frontmatter_of(node) ==
    IF HasKey(node, "frontmatter") THEN node.frontmatter ELSE EmptyDict

\* what the walk computes from the name, the path and the description of a file
\* node: directory_parts, the set of proposed tags, the content type
Derive(name, full_path, description) ==
    LET directory_parts == ParentParts(full_path)
    IN  [directory_parts |-> directory_parts,
         tags |-> _propose_tags(name, directory_parts, description),
         content_type |-> _determine_content_type(name, directory_parts, description)]

(***************************************************************************)
(* The trees handed to the analyzer.                                       *)
(***************************************************************************)
\* a tags value of a frontmatter: a list, or a scalar (`tags: python`)
TagList(items) == [is_list |-> TRUE, items |-> items]
TagScalar(tag) == [is_list |-> FALSE, items |-> <<tag>>]

\* the tag lists of a frontmatter that are tried in a flat tree
ExistingTagLists ==
    {<<Tag("javascript")>>, <<Tag("python")>>, <<Tag("javascript"), Tag("python")>>,
     <<Tag("api"), Tag("python")>>}

\* the frontmatters of a file of a flat tree: tags, with or without a description
\* that names an API
FlatFrontmatters ==
    {[tags |-> TagList(e)] : e \in ExistingTagLists}
      \cup {[tags |-> TagList(e), description |-> "REST api"] : e \in ExistingTagLists}

\* the i-th file node of a flat tree
FlatFiles(i) ==
    {[type |-> "file", name |-> ToString(i) \o ".md", path |-> DocPath(i),
      frontmatter |-> fm] : fm \in FlatFrontmatters}

\* the lists of n file nodes
RECURSIVE FlatChildren(_)
FlatChildren(n) ==
    IF n = 0 THEN {<<>>}
    ELSE {Append(c, f) : c \in FlatChildren(n - 1), f \in FlatFiles(n)}

\* a directory "docs" holding up to MaxFiles markdown files
FlatTrees ==
    {[type |-> "directory", name |-> "docs", children |-> c]
       : c \in UNION {FlatChildren(n) : n \in 0..MaxFiles}}

FlatTags == {Tag("api"), Tag("javascript"), Tag("python")}

\* the largest number of nodes of a tree whose shape is varied
MaxNodes == 4

\* the well-formed nodes of such a tree: a directory, a markdown file, another
\* file; the malformed ones: a markdown file node without "path", a file node
\* without "name"
WellFormedKinds == {"directory", "md", "txt"}
MalformedKinds == {"md_nopath", "noname"}

\* the name of the i-th child of its parent, by its kind
KindName(kind, i) ==
    CASE kind = "directory" -> "d" \o ToString(i)
      [] kind \in {"md", "md_nopath"} -> "f" \o ToString(i) \o ".md"
      [] OTHER -> "f" \o ToString(i) \o ".txt"

\* the node of that kind below the path prefix; a file node has "children" only
\* if it has any
ShapeNode(kind, prefix, i, children) ==
    LET name == KindName(kind, i)
        path == prefix \o "/" \o name
    IN  CASE kind = "directory" ->
               [type |-> "directory", name |-> name, children |-> children]
          [] kind \in {"md", "txt"} /\ children = <<>> ->
               [type |-> "file", name |-> name, path |-> path]
          [] kind \in {"md", "txt"} /\ children # <<>> ->
               [type |-> "file", name |-> name, path |-> path, children |-> children]
          [] kind = "md_nopath" /\ children = <<>> ->
               [type |-> "file", name |-> name]
          [] kind = "md_nopath" /\ children # <<>> ->
               [type |-> "file", name |-> name, children |-> children]
          [] kind = "noname" /\ children = <<>> ->
               [type |-> "file", path |-> path]
          [] kind = "noname" /\ children # <<>> ->
               [type |-> "file", path |-> path, children |-> children]

\* the trees of n nodes of these kinds whose root is the i-th child below prefix,
\* and the lists of trees of n nodes in all whose first tree is the i-th child
\* below prefix
RECURSIVE ShapeTreesAt(_, _, _, _)
RECURSIVE ShapeForests(_, _, _, _)
ShapeTreesAt(kinds, n, prefix, i) ==
    UNION {{ShapeNode(kind, prefix, i, c)
              : c \in ShapeForests(kinds, n - 1, prefix \o "/" \o KindName(kind, i), 1)}
             : kind \in kinds}

ShapeForests(kinds, n, prefix, i) ==
    IF n = 0 THEN {<<>>}
    ELSE UNION {{<<t>> \o rest : t \in ShapeTreesAt(kinds, k, prefix, i),
                                 rest \in ShapeForests(kinds, n - k, prefix, i + 1)}
                  : k \in 1..n}

\* every well-formed tree of up to MaxNodes nodes, and every tree of fewer nodes
\* that may have malformed ones; the paths are absolute
ShapeTrees ==
    UNION {ShapeTreesAt(WellFormedKinds, n, "", 1) : n \in 1..MaxNodes}
      \cup UNION {ShapeTreesAt(WellFormedKinds \cup MalformedKinds, n, "", 1)
                    : n \in 1..(MaxNodes - 1)}

\* the two directories above the file of a named tree
NamedDirs == {<<"AI", "Blog">>, <<"notes", "blog">>}

\* the name and the frontmatter of the file of a named tree
NamedFiles ==
    {[name |-> n] : n \in {"My trip.md", "Blog prompt.md", "agent notes.md",
                           "draft config.md", "research thread.md", "README.md",
                           "notes.txt"}}
      \cup {[name |-> "My trip.md", frontmatter |-> fm]
              : fm \in {[description |-> "REST api"],
                        [tags |-> TagList(<<Tag("python")>>)],
                        [tags |-> TagList(<<Tag("Python"), Tag(" python ")>>)],
                        [tags |-> TagScalar(Tag("python"))]}}

\* directory dirs[1] holding directory dirs[2] holding one file, with relative
\* paths
NamedTree(dirs, file) ==
    LET path == dirs[1] \o "/" \o dirs[2] \o "/" \o file.name
    IN  [type |-> "directory", name |-> dirs[1],
         children |->
           <<[type |-> "directory", name |-> dirs[2],
              children |-> <<DictSet(DictSet(file, "type", "file"), "path", path)>>]>>]

NamedTrees == {NamedTree(dirs, file) : dirs \in NamedDirs, file \in NamedFiles}

\* a tree as build_json_tree of the tree command writes it: title, path, type,
\* children, and frontmatter; no "name"
TreeCommandOutput ==
    [title |-> "Docs", path |-> "docs", type |-> "directory",
     children |-> <<[title |-> "Notes", path |-> "docs/notes.md", type |-> "file"]>>]

WalkTrees == ShapeTrees \cup NamedTrees \cup {TreeCommandOutput}

\* <<name, path, description>> of the file nodes of a tree that have a name and
\* a path
RECURSIVE FileKeysOf(_)
FileKeysOf(node) ==
    (IF TypeIs(node, "file") /\ HasKey(node, "name") /\ HasKey(node, "path")
       THEN {<<node.name, node.path,
               description_of(frontmatter_of(node))>>}
       ELSE {})
      \cup UNION {FileKeysOf(Children(node)[i]) : i \in 1..Len(Children(node))}

\* Derive, evaluated once for every file node of the trees
DerivedOnce ==
    [key \in UNION {FileKeysOf(t) : t \in FlatTrees \cup WalkTrees} |->
        Derive(key[1], key[2], key[3])]

\* Derive for a file node that has a name and a path, taken from DerivedOnce
Derived(node) ==
    LET key == <<node.name, node.path, description_of(frontmatter_of(node))>>
    IN  IF key \in DOMAIN DerivedOnce THEN DerivedOnce[key]
        ELSE Derive(key[1], key[2], key[3])

\* the FileAnalysis built for a markdown file node; proposed_tags is list(tags)
FileAnalysis(node) ==
    LET frontmatter == frontmatter_of(node)
        d == Derived(node)
    IN  [path |-> node.path,
         name |-> node.name,
         existing_tags |-> existing_tags_of(frontmatter),
         proposed_tags |-> SetIter(d.tags),
         content_type |-> d.content_type,
         directory_context |-> d.directory_parts,
         description |-> description_of(frontmatter)]

\* a walk that appends every file node, markdown or not
IsMarkdown_any(node) == TRUE

\* node["name"].endswith(".md")
IsMarkdown(node) == endswith(node.name, ".md")

\* _extract_files_recursive(node, path_context) on st = [files, exc]: exc is the
\* exception that left the walk ("" when none); node["name"] and node["path"]
\* raise KeyError on a node without the key, node.get raises AttributeError on
\* None
RECURSIVE _extract_files_recursive(_, _, _)
RECURSIVE ExtractChildren(_, _, _, _)
_extract_files_recursive(st, node, path_context) ==
    LET visited ==
          IF node = None THEN [st EXCEPT !.exc = "AttributeError"]
          ELSE IF ~TypeIs(node, "file") THEN st
          ELSE IF ~HasKey(node, "name") THEN [st EXCEPT !.exc = "KeyError"]
          ELSE IF ~IsMarkdown(node) THEN st
          ELSE IF ~HasKey(node, "path") THEN [st EXCEPT !.exc = "KeyError"]
          ELSE [st EXCEPT !.files = Append(@, FileAnalysis(node))]
    IN  IF st.exc # "" THEN st
        ELSE IF visited.exc # "" THEN visited
        ELSE ExtractChildren(visited, node, path_context, 1)

\* the loop `for child in node.get("children", [])`, from position i on
ExtractChildren(st, node, path_context, i) ==
    IF st.exc # "" \/ i > Len(Children(node)) THEN st
    ELSE IF TypeIs(node, "directory") /\ ~HasKey(node, "name")
      THEN [st EXCEPT !.exc = "KeyError"]
    ELSE LET new_context == IF TypeIs(node, "directory")
                              THEN Append(path_context, node.name)
                              ELSE path_context
         IN  ExtractChildren(_extract_files_recursive(st, Children(node)[i], new_context),
                             node, path_context, i + 1)

\* analyzer.files and the exception before the walk
NoFiles == [files |-> <<>>, exc |-> ""]

\* all_tags without set(): the concatenated list, a repeated tag visited twice
all_tags_list(f) == f.existing_tags \o f.proposed_tags

\* all_tags = set(file_analysis.existing_tags + file_analysis.proposed_tags),
\* in the order the for loop visits it
all_tags(f) == SetIter(Range(f.existing_tags \o f.proposed_tags))

\* tag_files[tag].append(path) on the defaultdict(list), kept in key order
AppendFile(tag_files, tag, path) ==
    IF \E i \in 1..Len(tag_files) : tag_files[i].tag = tag
      THEN [i \in 1..Len(tag_files) |->
              IF tag_files[i].tag = tag
                THEN [tag_files[i] EXCEPT !.files = Append(@, path)]
                ELSE tag_files[i]]
      ELSE Append(tag_files, [tag |-> tag, files |-> <<path>>])

\* the inner loop counting a pair on one side only (`if tag < other_tag`)
CountOthers_above(cooc, tag, tags) ==
    [cooc EXCEPT ![tag] =
        [o \in Tags |-> IF o \in tags /\ tag < o THEN @[o] + 1 ELSE @[o]]]

\* the inner loop: tag_cooccurrence[tag][other_tag] += 1 for other_tag != tag
CountOthers(cooc, tag, tags) ==
    [cooc EXCEPT ![tag] =
        [o \in Tags |-> IF o \in tags /\ o # tag THEN @[o] + 1 ELSE @[o]]]

\* the loop `for tag in all_tags` for one file, from position j on
RECURSIVE VisitTags(_, _, _, _)
VisitTags(st, tags, j, path) ==
    IF j > Len(tags) THEN st
    ELSE VisitTags([tag_files |-> AppendFile(st.tag_files, tags[j], path),
                    cooc |-> CountOthers(st.cooc, tags[j], Range(tags))],
                   tags, j + 1, path)

\* the loop `for file_analysis in self.files`, from position i on
RECURSIVE CollectUsage(_, _, _)
CollectUsage(st, fs, i) ==
    IF i > Len(fs) THEN st
    ELSE CollectUsage(VisitTags(st, all_tags(fs[i]), 1, fs[i].path), fs, i + 1)

NoUsage == [tag_files |-> <<>>, cooc |-> [t \in Tags |-> [o \in Tags |-> 0]]]

\* related_tags with `if count >= 1`
related_tags_once(cooc, tag) == {o \in Tags : cooc[tag][o] >= 1}

\* related_tags of one tag: the other tags counted at least twice with it
related_tags(cooc, tag) == {o \in Tags : cooc[tag][o] >= RelatedThreshold}

\* TagAnalysis(tag, frequency=len(files), files, related_tags)
TagAnalysis(usage, entry) ==
    [tag |-> entry.tag,
     frequency |-> Len(entry.files),
     files |-> entry.files,
     related_tags |-> related_tags(usage.cooc, entry.tag)]

\* self.tag_analysis[tag] = ...: replaces the entry of a key, appends a new key
DictPut(d, e) ==
    IF \E i \in 1..Len(d) : d[i].tag = e.tag
      THEN [i \in 1..Len(d) |-> IF d[i].tag = e.tag THEN e ELSE d[i]]
      ELSE Append(d, e)

\* the loop `for tag, files in tag_files.items()`, from position i on
RECURSIVE StoreAnalysis(_, _, _)
StoreAnalysis(d, usage, i) ==
    IF i > Len(usage.tag_files) THEN d
    ELSE StoreAnalysis(DictPut(d, TagAnalysis(usage, usage.tag_files[i])), usage, i + 1)

\* the rules list of generate_category_rules, in the order it is written
CategoryRules ==
    <<[rule_id |-> "system_prompt_location",
       condition |-> "content_type == 'prompt' and 'system' in filename.lower()",
       category |-> "AI/Prompts/System",
       priority |-> 1],
      [rule_id |-> "project_specific_agents",
       condition |-> "content_type == 'agent' and any(project in directory_context for project in ['RepRally', 'Trinote', 'specific_project'])",
       category |-> "Projects/{project}/Agents",
       priority |-> 2],
      [rule_id |-> "blog_content_centralization",
       condition |-> "content_type == 'blog' or 'blog' in filename.lower()",
       category |-> "AI/Blog",
       priority |-> 1],
      [rule_id |-> "research_by_topic",
       condition |-> "content_type == 'research'",
       category |-> "AI/Research/{topic}",
       priority |-> 3],
      [rule_id |-> "workflow_by_domain",
       condition |-> "content_type == 'workflow'",
       category |-> "AI/Workflows/{domain}",
       priority |-> 2]>>

\* analyzer.analyze_tree_json(tree_data): one FileAnalysis per markdown file node;
\* a KeyError of the walk leaves the command
analyze_tree_json ==
    /\ phase = "new"
    /\ LET walked == _extract_files_recursive(NoFiles, tree_data, <<>>)
       IN  /\ files' = files \o walked.files
           /\ phase' = IF walked.exc = "" THEN "extracted" ELSE "failed"
    /\ UNCHANGED <<tree_data, tag_analysis, category_rules, hashOrder, report, previous>>
    /\ UNCHANGED wfVars
    /\ UNCHANGED toolVars

\* what analyze_tags stores into the dict d
Analysis(d) == StoreAnalysis(d, CollectUsage(NoUsage, files, 1), 1)

\* analyzer.analyze_tags(), the first call and a second call on the same files
analyze_tags ==
    /\ phase \in {"extracted", "analyzed"}
    /\ tag_analysis' = Analysis(tag_analysis)
    /\ phase' = IF phase = "extracted" THEN "analyzed" ELSE "reanalyzed"
    /\ UNCHANGED <<tree_data, files, category_rules, hashOrder, report, previous>>
    /\ UNCHANGED wfVars
    /\ UNCHANGED toolVars

\* analyzer.generate_category_rules()
generate_category_rules ==
    /\ phase = "analyzed"
    /\ category_rules' = CategoryRules
    /\ phase' = "ruled"
    /\ UNCHANGED <<tree_data, files, tag_analysis, hashOrder, report, previous>>
    /\ UNCHANGED wfVars
    /\ UNCHANGED toolVars

\* sorted(..., key=..., reverse=True) and list.sort(key=..., reverse=True) on a
\* list of [key, item]: stable, descending by key; x goes behind every element
\* whose key is not smaller
RECURSIVE InsertDesc(_, _)
InsertDesc(sorted, x) ==
    IF sorted = <<>> THEN <<x>>
    ELSE IF Head(sorted).key >= x.key
           THEN <<Head(sorted)>> \o InsertDesc(Tail(sorted), x)
           ELSE <<x>> \o sorted

RECURSIVE SortKeyed(_)
SortKeyed(sq) ==
    IF sq = <<>> THEN <<>>
    ELSE InsertDesc(SortKeyed(SubSeq(sq, 1, Len(sq) - 1)), sq[Len(sq)])

\* keys[i] is the key of sq[i]
SortDesc(sq, keys) ==
    LET keyed == SortKeyed([i \in 1..Len(sq) |-> [key |-> keys[i], item |-> sq[i]]])
    IN  [i \in 1..Len(sq) |-> keyed[i].item]

\* a tag table that takes every entry, whatever its frequency
frequent_tags_all(d, min_freq) == d

\* frequent_tags: the entries with frequency >= min_freq, in dict order
frequent_tags(d, min_freq) == SelectSeq(d, LAMBDA e : e.frequency >= min_freq)

\* an inner loop that takes a pair as soon as the two tags share one file
RECURSIVE OverlapsOf_any(_, _, _, _)
OverlapsOf_any(found, ft, i, j) ==
    IF j > Len(ft) THEN found
    ELSE LET overlap == Cardinality(Range(ft[i].files) \cap Range(ft[j].files))
         IN  OverlapsOf_any(IF ft[i].tag < ft[j].tag /\ overlap >= 1
                              THEN Append(found, [tag1 |-> ft[i].tag, tag2 |-> ft[j].tag,
                                                  overlap |-> overlap])
                              ELSE found,
                            ft, i, j + 1)

\* the inner loop over tag2 for one tag1, from position j on
RECURSIVE OverlapsOf(_, _, _, _)
OverlapsOf(found, ft, i, j) ==
    IF j > Len(ft) THEN found
    ELSE LET overlap == Cardinality(Range(ft[i].files) \cap Range(ft[j].files))
         IN  OverlapsOf(IF ft[i].tag < ft[j].tag /\ overlap >= OverlapThreshold
                          THEN Append(found, [tag1 |-> ft[i].tag, tag2 |-> ft[j].tag,
                                              overlap |-> overlap])
                          ELSE found,
                        ft, i, j + 1)

\* the outer loop over tag1, from position i on
RECURSIVE FindOverlaps(_, _, _)
FindOverlaps(found, ft, i) ==
    IF i > Len(ft) THEN found
    ELSE FindOverlaps(OverlapsOf(found, ft, i, 1), ft, i + 1)

\* key=lambda x: x[2] and key=lambda x: x[1].frequency, on every element
OverlapKeys(found) == [i \in 1..Len(found) |-> found[i].overlap]
FrequencyKeys(ft) == [i \in 1..Len(ft) |-> ft[i].frequency]

\* overlapping_tags after overlapping_tags.sort(key=lambda x: x[2], reverse=True)
overlapping_tags(ft) ==
    LET found == FindOverlaps(<<>>, ft, 1)
    IN  SortDesc(found, OverlapKeys(found))

\* the first n elements, sq[:n]
Take(sq, n) == SubSeq(sq, 1, IF Len(sq) < n THEN Len(sq) ELSE n)

\* the parts of the report: the rows of the tag table, the rules section, the
\* consolidation lines
Report(min_freq) ==
    LET ft == frequent_tags(tag_analysis, min_freq)
        found == overlapping_tags(ft)
    IN  [min_freq |-> min_freq,
         tag_rows |-> SortDesc(ft, FrequencyKeys(ft)),
         rules |-> category_rules,
         overlapping_tags |-> found,
         overlap_lines |-> Take(found, TopOverlaps)]

\* generate_analysis_report(analyzer, min_freq, max_categories)
generate_analysis_report ==
    /\ phase = "ruled"
    /\ \E min_freq \in MinFreqs :
         /\ previous.ran => min_freq = previous.report.min_freq
         /\ report' = Report(min_freq)
    /\ phase' = "reported"
    /\ UNCHANGED <<tree_data, files, tag_analysis, category_rules, hashOrder, previous>>
    /\ UNCHANGED wfVars
    /\ UNCHANGED toolVars

\* no run of the command before this one
NoRun == [ran |-> FALSE, files |-> <<>>, report |-> <<>>]

\* the command `analyze` is given once more, on the same JSON file and with the
\* same --min-freq: a new process with its own hash order and a new
\* OrganizationAnalyzer; the output of the run before is kept for comparison
analyze ==
    /\ phase = "reported"
    /\ ~previous.ran
    /\ previous' = [ran |-> TRUE, files |-> files, report |-> report]
    /\ hashOrder' \in HashOrders(Range(hashOrder))
    /\ files' = <<>>
    /\ tag_analysis' = <<>>
    /\ category_rules' = <<>>
    /\ phase' = "new"
    /\ UNCHANGED <<tree_data, report>>
    /\ UNCHANGED wfVars
    /\ UNCHANGED toolVars

OrganizeNext ==
    \/ analyze_tree_json
    \/ analyze_tags
    \/ generate_category_rules
    \/ generate_analysis_report

\* the command run on a tree, and run once more
TreeNext ==
    \/ OrganizeNext
    \/ analyze

WorkflowIdle ==
    /\ documents = <<>>
    /\ data = EmptyDict
    /\ stage = 0
    /\ pc = "idle"
    /\ acc = <<>>
    /\ started = <<>>
    /\ failCause = ""
    /\ lastResp = ""

\* OrganizationAnalyzer(): no files, no tag analysis, no rules
NewAnalyzer ==
    /\ files = <<>>
    /\ tag_analysis = <<>>
    /\ category_rules = <<>>
    /\ phase = "new"
    /\ report = <<>>
    /\ previous = NoRun

OrganizeInit ==
    /\ tree_data \in FlatTrees
    /\ hashOrder \in HashOrders(FlatTags)
    /\ NewAnalyzer
    /\ WorkflowIdle
    /\ ToolsIdle

SpecOrganize == OrganizeInit /\ [][OrganizeNext]_vars

\* the tags the walk can meet in a tree: those of the frontmatters and those
\* proposed for its markdown file nodes
RECURSIVE TagsOf(_)
TagsOf(node) ==
    (IF TypeIs(node, "file") /\ HasKey(node, "name") /\ HasKey(node, "path")
          /\ endswith(node.name, ".md")
       THEN Range(existing_tags_of(frontmatter_of(node))) \cup Derived(node).tags
       ELSE {})
      \cup UNION {TagsOf(Children(node)[i]) : i \in 1..Len(Children(node))}

\* a tree of varied shape or names; the process iterates its tags in any order
TreeInit ==
    /\ tree_data \in WalkTrees
    /\ hashOrder \in HashOrders(TagsOf(tree_data))
    /\ NewAnalyzer
    /\ WorkflowIdle
    /\ ToolsIdle

SpecTree == TreeInit /\ [][TreeNext]_vars

(***************************************************************************)
(* The tree command (commands/tree.py): build_json_tree and                *)
(* collect_tree_items on a directory, and the organize command reading the *)
(* JSON it wrote.                                                          *)
(***************************************************************************)
\* the characters of the entry names, in ascending code point order
CodePoints == " -.0123456789ABCDEFGHIJKLMNOPQRSTUVWXYZ_abcdefghijklmnopqrstuvwxyz"

\* the place of a character in CodePoints
CodeRank ==
    [c \in {CharAt(CodePoints, i) : i \in 1..Len(CodePoints)} |->
        CHOOSE i \in 1..Len(CodePoints) : CharAt(CodePoints, i) = c]

\* s < t on str: by code point at the first place where they differ, a proper
\* prefix first
RECURSIVE StrLess(_, _)
StrLess(s, t) ==
    IF t = "" THEN FALSE
    ELSE IF s = "" THEN TRUE
    ELSE IF CharAt(s, 1) = CharAt(t, 1)
           THEN StrLess(SubSeq(s, 2, Len(s)), SubSeq(t, 2, Len(t)))
           ELSE CodeRank[CharAt(s, 1)] < CodeRank[CharAt(t, 1)]

\* the upper-case letter of every lower-case letter
UpperOf ==
    [c \in {CharAt(LowerCase, i) : i \in 1..Len(LowerCase)} |->
        CharAt(UpperCase, CHOOSE i \in 1..Len(LowerCase) : CharAt(LowerCase, i) = c)]

\* word.capitalize(): the first character upper-cased, the others lower-cased
capitalize(word) ==
    IF word = "" THEN ""
    ELSE (IF CharAt(word, 1) \in DOMAIN UpperOf THEN UpperOf[CharAt(word, 1)]
                                                ELSE CharAt(word, 1))
           \o lower(SubSeq(word, 2, Len(word)))

\* name.replace('_', ' ').replace('-', ' ').split(): the words between the
\* blanks, cur being the word that is read
RECURSIVE SplitWords(_, _)
SplitWords(s, cur) ==
    IF s = "" THEN (IF cur = "" THEN <<>> ELSE <<cur>>)
    ELSE IF CharAt(s, 1) \in {"_", "-", " "}
           THEN (IF cur = "" THEN <<>> ELSE <<cur>>) \o SplitWords(SubSeq(s, 2, Len(s)), "")
           ELSE SplitWords(SubSeq(s, 2, Len(s)), cur \o CharAt(s, 1))

\* ' '.join(words)
RECURSIVE JoinWords(_)
JoinWords(words) ==
    IF words = <<>> THEN ""
    ELSE IF Len(words) = 1 THEN words[1]
    ELSE words[1] \o " " \o JoinWords(Tail(words))

\* titleize_filename(filename)
titleize_filename(filename) ==
    LET words == SplitWords(filename, "")
    IN  JoinWords([i \in 1..Len(words) |-> capitalize(words[i])])

\* filepath.suffix == ".md"
IsMd(name) == Len(name) > 3 /\ endswith(name, ".md")

\* filepath.stem of a name with a suffix of two letters or of three
Stem(name) ==
    IF IsMd(name) THEN SubSeq(name, 1, Len(name) - 3)
    ELSE IF Len(name) > 4 /\ CharAt(name, Len(name) - 3) = "."
      THEN SubSeq(name, 1, Len(name) - 4)
    ELSE name

\* get_title_with_fallback(filepath, processor): the title of the frontmatter,
\* the first top-level heading, the titleized stem; the titleized name for a
\* file that is no markdown file
get_title_with_fallback(file) ==
    IF ~IsMd(file.name) THEN titleize_filename(file.name)
    ELSE IF HasKey(file.metadata, "title") THEN file.metadata.title
    ELSE IF file.heading # "" THEN file.heading
    ELSE titleize_filename(Stem(file.name))

\* name.startswith('.')
IsHidden(name) == name # "" /\ CharAt(name, 1) = "."

\* sorted(..., key=lambda x: x.name.lower()): stable, ascending; x goes behind
\* every element whose key is not greater
RECURSIVE InsertByName(_, _)
InsertByName(sorted, x) ==
    IF sorted = <<>> THEN <<x>>
    ELSE IF StrLess(lower(x.name), lower(Head(sorted).name))
           THEN <<x>> \o sorted
           ELSE <<Head(sorted)>> \o InsertByName(Tail(sorted), x)

\* the entries left in the order iterdir() yields them
SortByName_unsorted(sq) == sq

RECURSIVE SortByName(_)
SortByName(sq) ==
    IF sq = <<>> THEN <<>>
    ELSE InsertByName(SortByName(SubSeq(sq, 1, Len(sq) - 1)), sq[Len(sq)])

\* directories = sorted([p for p in entries if p.is_dir() and not hidden]) and
\* files = sorted([p for p in entries if p.is_file() and not hidden])
directories_of(dir) ==
    SortByName(SelectSeq(dir.entries, LAMBDA p : p.kind = "dir" /\ ~IsHidden(p.name)))
files_of(dir) ==
    SortByName(SelectSeq(dir.entries, LAMBDA p : p.kind = "file" /\ ~IsHidden(p.name)))

\* frontmatter_data of a markdown file under the two flags
frontmatter_data(file, show_description, show_tags) ==
    LET keys == (IF show_description /\ HasKey(file.metadata, "description")
                   THEN {"description"} ELSE {})
                  \cup (IF show_tags /\ HasKey(file.metadata, "tags")
                          THEN {"tags"} ELSE {})
    IN  [key \in keys |-> file.metadata[key]]

\* file_data of build_json_tree for a file of the directory at path
file_data(file, path, show_description, show_tags) ==
    LET base == [title |-> get_title_with_fallback(file),
                 path |-> path \o "/" \o file.name,
                 type |-> "file"]
        fm == IF IsMd(file.name)
                THEN frontmatter_data(file, show_description, show_tags)
                ELSE EmptyDict
    IN  IF DOMAIN fm = {} THEN base ELSE DictSet(base, "frontmatter", fm)

\* build_json_tree(directory, max_depth, show_description, show_tags,
\* current_depth) for the directory dir at path
RECURSIVE build_json_tree(_, _, _, _, _, _)
build_json_tree(dir, path, max_depth, show_description, show_tags, current_depth) ==
    IF current_depth >= max_depth THEN None
    ELSE LET directories == directories_of(dir)
             file_entries == files_of(dir)
             built == [i \in 1..Len(directories) |->
                         build_json_tree(directories[i],
                                         path \o "/" \o directories[i].name,
                                         max_depth, show_description, show_tags,
                                         current_depth + 1)]
         IN  [title |-> titleize_filename(dir.name),
              path |-> path,
              type |-> "directory",
              children |->
                SelectSeq(built, LAMBDA child : child # None)
                  \o [i \in 1..Len(file_entries) |->
                        file_data(file_entries[i], path, show_description, show_tags)]]

\* collect_tree_items(directory, max_depth, current_depth) for the directory dir
\* at path: the items (path, level, is_last, is_directory) of the text tree; the
\* loop over the directories, from position i on, puts the items below a
\* directory right behind it
RECURSIVE collect_tree_items(_, _, _, _)
RECURSIVE DirectoryItems(_, _, _, _, _, _)
DirectoryItems(directories, count, path, max_depth, current_depth, i) ==
    IF i > Len(directories) THEN <<>>
    ELSE <<[path |-> path \o "/" \o directories[i].name,
            name |-> directories[i].name,
            level |-> current_depth,
            is_last |-> (i = count),
            is_directory |-> TRUE]>>
           \o collect_tree_items(directories[i], path \o "/" \o directories[i].name,
                                 max_depth, current_depth + 1)
           \o DirectoryItems(directories, count, path, max_depth, current_depth, i + 1)

collect_tree_items(dir, path, max_depth, current_depth) ==
    IF current_depth >= max_depth THEN <<>>
    ELSE LET directories == directories_of(dir)
             file_entries == files_of(dir)
             count == Len(directories) + Len(file_entries)
         IN  DirectoryItems(directories, count, path, max_depth, current_depth, 1)
               \o [i \in 1..Len(file_entries) |->
                     [path |-> path \o "/" \o file_entries[i].name,
                      name |-> file_entries[i].name,
                      level |-> current_depth,
                      is_last |-> (Len(directories) + i = count),
                      is_directory |-> FALSE]]

\* the letter the name of the i-th entry of a directory starts with
Letters == <<"b", "A", "a", "C", "e", "D">>

\* the kinds of entries: a directory, a markdown file, another file, a hidden
\* directory, a hidden markdown file
EntryKinds == {"dir", "md", "txt", "hidden_dir", "hidden_md"}

\* the name of the i-th entry of its directory, by its kind
EntryName(kind, i) ==
    CASE kind = "dir" -> Letters[i] \o "_dir"
      [] kind = "md" -> Letters[i] \o "-note.md"
      [] kind = "txt" -> Letters[i] \o ".txt"
      [] kind = "hidden_dir" -> "." \o Letters[i]
      [] kind = "hidden_md" -> "." \o Letters[i] \o ".md"

\* the frontmatter and the heading of the i-th entry when it is a markdown
\* file: every second one has a description and tags, every third one a title
EntryMetadata(i) ==
    CASE i % 2 = 1 -> [description |-> "REST api",
                       tags |-> TagList(<<Tag("python"), Tag("api")>>)]
      [] i % 3 = 0 -> [title |-> "A title"]
      [] OTHER -> EmptyDict

\* the entry of that kind with these entries below it
DirEntry(kind, i, entries) ==
    IF kind \in {"dir", "hidden_dir"}
      THEN [name |-> EntryName(kind, i), kind |-> "dir", entries |-> entries]
      ELSE [name |-> EntryName(kind, i), kind |-> "file",
            metadata |-> IF kind = "txt" THEN EmptyDict ELSE EntryMetadata(i),
            heading |-> IF kind = "md" /\ i % 2 = 0 THEN "Heading" ELSE ""]

\* the lists of entries of a directory, n entries in all with those below them,
\* the first being the i-th entry of the directory; a list is in the order
\* iterdir() yields it
RECURSIVE EntryLists(_, _)
EntryLists(n, i) ==
    IF n = 0 THEN {<<>>}
    ELSE UNION {
           UNION {{<<DirEntry(kind, i, below)>> \o rest
                     : below \in (IF kind \in {"dir", "hidden_dir"}
                                    THEN EntryLists(k - 1, 1)
                                    ELSE IF k = 1 THEN {<<>>} ELSE {}),
                       rest \in EntryLists(n - k, i + 1)}
                    : kind \in EntryKinds}
             : k \in 1..n}

\* the directories the command is given: "vault" with up to MaxNodes - 1 entries
\* below it
Directories ==
    {[name |-> "vault", kind |-> "dir", entries |-> entries]
       : entries \in UNION {EntryLists(n, 1) : n \in 0..(MaxNodes - 1)}}

\* the values of --depth tried (its default is 3)
Depths == 0..3

\* the command `show`: the JSON tree or the items of the text tree, under the
\* --tags flag or without it
show ==
    /\ tool = "ready"
    /\ \E json_output \in BOOLEAN, tags \in BOOLEAN :
         LET show_description == ~tags
             show_tags == tags
         IN  output' =
               IF json_output
                 THEN [json_output |-> TRUE,
                       tree_data |-> build_json_tree(directory, directory.name, depth,
                                                     show_description, show_tags, 0),
                       lines |-> <<>>]
                 ELSE [json_output |-> FALSE,
                       tree_data |-> None,
                       lines |-> collect_tree_items(directory, directory.name, depth, 0)]
    /\ tool' = "shown"
    /\ UNCHANGED <<directory, depth, md_files, options, matching_files, post, force,
                   requests, prompt>>
    /\ UNCHANGED wfVars
    /\ UNCHANGED orgVars

\* the organize command given the JSON the tree command wrote:
\* tree_data = json.load(f), analyzer = OrganizationAnalyzer()
json_load ==
    /\ tool = "shown"
    /\ output.json_output
    /\ tree_data' = output.tree_data
    /\ phase' = "new"
    /\ tool' = "loaded"
    /\ UNCHANGED <<files, tag_analysis, category_rules, hashOrder, report, previous>>
    /\ UNCHANGED <<directory, depth, output, md_files, options, matching_files, post,
                   force, requests, prompt>>
    /\ UNCHANGED wfVars

ShowNext ==
    \/ show
    \/ json_load
    \/ OrganizeNext

\* the command is given a directory and a depth; no analyzer yet
ShowInit ==
    /\ directory \in Directories
    /\ depth \in Depths
    /\ output = <<>>
    /\ md_files = <<>>
    /\ options = <<>>
    /\ matching_files = <<>>
    /\ post = <<>>
    /\ force = FALSE
    /\ requests = <<>>
    /\ prompt = <<>>
    /\ tool = "ready"
    /\ OrgIdle
    /\ WorkflowIdle

SpecShow == ShowInit /\ [][ShowNext]_vars

(***************************************************************************)
(* The filter command (commands/filter.py): the options as given, the      *)
(* conditions parsed from them, the three tests and the files kept.        *)
(***************************************************************************)
\* a scalar value of the frontmatter, a list value of the frontmatter
Scalar(text) == [is_list |-> FALSE, items |-> <<text>>]
ListOf(items) == [is_list |-> TRUE, items |-> items]

\* ", ".join(repr(item) for item in items)
RECURSIVE JoinReprs(_)
JoinReprs(items) ==
    IF items = <<>> THEN ""
    ELSE IF Len(items) = 1 THEN "'" \o items[1] \o "'"
    ELSE "'" \o items[1] \o "', " \o JoinReprs(Tail(items))

\* str(value) of a frontmatter value
str(value) ==
    IF value.is_list THEN "[" \o JoinReprs(value.items) \o "]" ELSE value.items[1]

\* s.split(sep, 1) of a string that holds sep: what is before the first sep and
\* what is behind it
RECURSIVE SplitOnce(_, _, _)
SplitOnce(s, sep, before) ==
    IF CharAt(s, 1) = sep THEN <<before, SubSeq(s, 2, Len(s))>>
    ELSE SplitOnce(SubSeq(s, 2, Len(s)), sep, before \o CharAt(s, 1))

\* s.split(","): the parts between the commas, cur being the part that is read
RECURSIVE SplitCommas(_, _)
SplitCommas(s, cur) ==
    IF s = "" THEN <<cur>>
    ELSE IF CharAt(s, 1) = "," THEN <<cur>> \o SplitCommas(SubSeq(s, 2, Len(s)), "")
    ELSE SplitCommas(SubSeq(s, 2, Len(s)), cur \o CharAt(s, 1))

\* "=" in f
HasEquals(f) == Contains(f, "=")

\* key, value = f.split("=", 1): [key.strip(), value.strip()]
ParseField(f) ==
    LET kv == SplitOnce(f, "=", "")
    IN  [key |-> strip(kv[1]), value |-> strip(kv[2])]

\* key, values_str = f.split("=", 1): [key.strip(), [v.strip() for v in ...]]
ParseFieldIn(f) ==
    LET kv == SplitOnce(f, "=", "")
        parts == SplitCommas(kv[2], "")
    IN  [key |-> strip(kv[1]), values |-> [i \in 1..Len(parts) |-> strip(parts[i])]]

\* field_equals[key] = value and field_in_dict[key] = values on a dict kept as
\* the list of its items: the value of a key that is there is replaced
StoreCondition(d, cond) ==
    IF \E i \in 1..Len(d) : d[i].key = cond.key
      THEN [i \in 1..Len(d) |-> IF d[i].key = cond.key THEN cond ELSE d[i]]
      ELSE Append(d, cond)

\* the loop over the options given, from position i on
RECURSIVE StoreConditions(_, _, _)
StoreConditions(d, conds, i) ==
    IF i > Len(conds) THEN d
    ELSE StoreConditions(StoreCondition(d, conds[i]), conds, i + 1)

\* matches_tags(metadata, required_tags)
matches_tags(metadata, required_tags) ==
    IF required_tags = <<>> THEN TRUE
    ELSE LET file_tags ==
               IF ~HasKey(metadata, "tags") THEN <<>>
               ELSE IF metadata.tags.is_list THEN metadata.tags.items
               ELSE IF metadata.tags.items[1] # "" THEN <<metadata.tags.items[1]>>
               ELSE <<>>
             file_tags_lower == {lower(file_tags[i]) : i \in 1..Len(file_tags)}
         IN  \A i \in 1..Len(required_tags) : lower(required_tags[i]) \in file_tags_lower

\* matches_field_value(metadata, field, value, "equals")
matches_field_value(metadata, field, value) ==
    IF ~HasKey(metadata, field) THEN FALSE
    ELSE lower(str(metadata[field])) = lower(value)

\* matches_field_in_list(metadata, field, values)
matches_field_in_list(metadata, field, values) ==
    IF ~HasKey(metadata, field) THEN FALSE
    ELSE LET field_value == metadata[field]
             values_lower == {lower(values[i]) : i \in 1..Len(values)}
         IN  IF field_value.is_list
               THEN \E i \in 1..Len(field_value.items) :
                       lower(field_value.items[i]) \in values_lower
               ELSE lower(str(field_value)) \in values_lower

\* the conditions of collect_matching_files on one file
Matches(metadata, tags, field_equals, field_in) ==
    /\ matches_tags(metadata, tags)
    /\ \A i \in 1..Len(field_equals) :
         matches_field_value(metadata, field_equals[i].key, field_equals[i].value)
    /\ \A i \in 1..Len(field_in) :
         matches_field_in_list(metadata, field_in[i].key, field_in[i].values)

\* collect_matching_files: the files that match, in the order of the walk
collect_matching_files(walked, tags, field_equals, field_in) ==
    LET kept == SelectSeq(walked,
                          LAMBDA file : Matches(file.metadata, tags, field_equals, field_in))
    IN  [i \in 1..Len(kept) |->
           [path |-> kept[i].path, frontmatter |-> kept[i].metadata]]

\* the frontmatters of the markdown files of the vault
FilterMetadata ==
    {[key \in keys |->
        CASE key = "tags" -> tags
          [] key = "status" -> status
          [] key = "category" -> category]
       : keys \in {{}, {"tags"}, {"tags", "status"}, {"tags", "status", "category"},
                   {"status", "category"}},
         tags \in {ListOf(<<"prompt", "Agent">>), Scalar("Prompt")},
         status \in {Scalar("Published"), Scalar("draft")},
         category \in {Scalar("AI"), ListOf(<<"system", "notes">>)}}

\* the markdown files the walk meets: up to MaxDocs files
WalkedFiles ==
    UNION {[1..n -> FilterMetadata] : n \in 1..MaxDocs}

\* the options tried: --tag, --field and --in, each given any number of times
TagOptions == {<<>>, <<"prompt">>, <<"Prompt", "agent">>}
FieldOptions ==
    {<<>>, <<"status=published">>, <<"status = Draft", "status=published">>,
     <<"status=published", "category=ai">>, <<"status">>}
FieldInOptions ==
    {<<>>, <<"category=ai, system">>, <<"tags=prompt,agent">>,
     <<"category=ai", "category=system">>}

\* the command filter `show`: the conditions are parsed, an option without "="
\* ends the command with exit code 1, else the matching files are collected
filter_files ==
    /\ tool = "ready"
    /\ IF \E i \in 1..Len(options.field) : ~HasEquals(options.field[i])
         THEN /\ tool' = "exit"
              /\ UNCHANGED matching_files
         ELSE LET field_equals ==
                    StoreConditions(<<>>, [i \in 1..Len(options.field) |->
                                             ParseField(options.field[i])], 1)
                  field_in_dict ==
                    StoreConditions(<<>>, [i \in 1..Len(options.field_in) |->
                                             ParseFieldIn(options.field_in[i])], 1)
              IN  /\ matching_files' =
                       collect_matching_files(md_files, options.tags, field_equals,
                                              field_in_dict)
                  /\ tool' = "filtered"
    /\ UNCHANGED <<directory, depth, output, md_files, options, post, force, requests,
                   prompt>>
    /\ UNCHANGED wfVars
    /\ UNCHANGED orgVars

FilterNext == filter_files

FilterInit ==
    /\ md_files \in {[i \in 1..Len(ms) |->
                        [path |-> "vault/" \o ToString(i) \o ".md", metadata |-> ms[i]]]
                       : ms \in WalkedFiles}
    /\ options \in [tags : TagOptions, field : FieldOptions, field_in : FieldInOptions]
    /\ matching_files = <<>>
    /\ directory = <<>>
    /\ depth = 0
    /\ output = <<>>
    /\ post = <<>>
    /\ force = FALSE
    /\ requests = <<>>
    /\ prompt = <<>>
    /\ tool = "ready"
    /\ OrgIdle
    /\ WorkflowIdle

SpecFilter == FilterInit /\ [][FilterNext]_vars

(***************************************************************************)
(* The add-description command on one file (commands/add_description.py,   *)
(* core/processor.py): `post` is the file, its frontmatter and its body.   *)
(***************************************************************************)
TruncateAt == 2000

\* parse: the body of the file without the white space around it
content_of(file) == strip(file.content)

\* a key counts as there only with a value that is not empty
has_frontmatter_value(file, key) == HasKey(file.metadata, key) /\ file.metadata[key] # ""

\* FrontmatterProcessor.has_frontmatter(key)
has_frontmatter(file, key) == HasKey(file.metadata, key)

\* the document as get_description sends it
truncated(content) ==
    IF Len(content) > TruncateAt THEN SubSeq(content, 1, TruncateAt) \o "..." ELSE content

\* FrontmatterProcessor.update_frontmatter(key, value): the key is set and the
\* post is written back, with the body as parse read it
update_frontmatter(file, key, value) ==
    [metadata |-> [k \in DOMAIN file.metadata \cup {key} |->
                     IF k = key THEN value ELSE file.metadata[k]],
     content |-> content_of(file)]

\* the frontmatters and the bodies of the files tried
PostMetadata ==
    {EmptyDict, [title |-> "Note"], [description |-> "Old text."], [description |-> ""],
     [title |-> "Note", description |-> "Old text."]}
PostContents == {"", "  ", "Body.", " Body two. ", "Two\nlines."}

\* what the provider answers: the text of the first choice; an HTTP error, that
\* raise_for_status raises, is the other outcome of a request
ProviderTexts == {" A short note. ", "unknown", ""}

\* process_single_file(filepath, api_key, force, model): a description that is
\* there without force, or an empty body, ends the call; else one request is
\* made and its answer, stripped, is written; an HTTP error leaves the file
process_single_file ==
    /\ tool = "ready"
    /\ IF has_frontmatter(post, "description") /\ ~force
         THEN /\ tool' = "skipped"
              /\ UNCHANGED <<post, requests>>
         ELSE IF strip(content_of(post)) = ""
           THEN /\ tool' = "skipped"
                /\ UNCHANGED <<post, requests>>
           ELSE \/ \E text \in ProviderTexts :
                     /\ requests' = Append(requests, [content |-> truncated(content_of(post)),
                                                      raised |-> FALSE, text |-> text])
                     /\ post' = update_frontmatter(post, "description", strip(text))
                     /\ tool' = "processed"
                \/ /\ requests' = Append(requests, [content |-> truncated(content_of(post)),
                                                    raised |-> TRUE, text |-> ""])
                   /\ tool' = "raised"
                   /\ UNCHANGED post
    /\ UNCHANGED <<directory, depth, output, md_files, options, matching_files, force,
                   prompt>>
    /\ UNCHANGED wfVars
    /\ UNCHANGED orgVars

DescribeNext == process_single_file

DescribeInit ==
    /\ post \in [metadata : PostMetadata, content : PostContents]
    /\ force \in BOOLEAN
    /\ requests = <<>>
    /\ directory = <<>>
    /\ depth = 0
    /\ output = <<>>
    /\ md_files = <<>>
    /\ options = <<>>
    /\ matching_files = <<>>
    /\ prompt = <<>>
    /\ tool = "ready"
    /\ OrgIdle
    /\ WorkflowIdle

SpecDescribe == DescribeInit /\ [][DescribeNext]_vars

(***************************************************************************)
(* The context of the relationship-mapping stage (organizational_workflow  *)
(* .py): for each document the stage sends the document's analysis and a   *)
(* sample of the other analyses; `prompt` holds what was sent, per document.*)
(***************************************************************************)
MaxAnalyses == 12
ContextCap == 10

\* every analysis goes into the context, the document's own too
other_docs_all(content_analyses, i) == content_analyses

\* content_analyses[:i] + content_analyses[i+1:], i counted from 1 here
other_docs(content_analyses, i) ==
    SubSeq(content_analyses, 1, i - 1) \o SubSeq(content_analyses, i + 1, Len(content_analyses))

\* what map_relationships puts into its prompt: current_doc and other_docs[:10]
relationship_prompt(current_doc, others) ==
    [current_doc |-> current_doc, other_docs |-> Take(others, ContextCap)]

\* the content analyses of n documents: the analysis of document k carries the
\* path of document k; the analysis of document f, if any, is the fallback
ContentAnalyses(n, f) ==
    [k \in 1..n |-> [path |-> "doc/" \o ToString(k) \o ".md",
                     fallback |-> (k = f)]]

\* relationship_mapping_step, as far as the prompts go: one call of
\* map_relationships per document, in document order
relationship_mapping_context ==
    /\ tool = "ready"
    /\ LET content_analyses == data["content_analyses"]
       IN  prompt' = [i \in 1..Len(content_analyses) |->
                        relationship_prompt(content_analyses[i],
                                            other_docs(content_analyses, i))]
    /\ tool' = "prompted"
    /\ UNCHANGED <<directory, depth, output, md_files, options, matching_files, post, force,
                   requests>>
    /\ UNCHANGED wfVars
    /\ UNCHANGED orgVars

ContextNext == relationship_mapping_context

ContextInit ==
    /\ data \in {[content_analyses |-> ContentAnalyses(n, f)]
                   : n \in 0..MaxAnalyses, f \in 0..MaxAnalyses}
    /\ prompt = <<>>
    /\ directory = <<>>
    /\ depth = 0
    /\ output = <<>>
    /\ md_files = <<>>
    /\ options = <<>>
    /\ matching_files = <<>>
    /\ post = <<>>
    /\ force = FALSE
    /\ requests = <<>>
    /\ tool = "ready"
    /\ OrgIdle
    /\ documents = <<>>
    /\ stage = 0
    /\ pc = "idle"
    /\ acc = <<>>
    /\ started = <<>>
    /\ failCause = ""
    /\ lastResp = ""

SpecContext == ContextInit /\ [][ContextNext]_vars

(***************************************************************************)
(* A step executor called on its own, on any envelope: the executors are   *)
(* functions of StepInput.previous_step_content and take whatever dict the *)
(* caller hands them.                                                      *)
(***************************************************************************)
\* a value stored under the key of step k for the documents docs
SampleValue(k, docs) ==
    IF k \in PerDocSteps
      THEN [i \in 1..Len(docs) |-> SetPath(DefaultOpinion(k), docs[i].path)]
      ELSE DefaultOpinion(k)

Envelopes(docs) ==
    {[key \in {StepKeys[k] : k \in K} |->
        SampleValue(CHOOSE k \in K : StepKeys[k] = key, docs)]
       : K \in SUBSET (1..NumSteps)}

StepInit ==
    /\ documents \in DocumentLists
    /\ data \in Envelopes(documents)
    /\ stage \in 0..(NumSteps - 1)
    /\ pc = "ready"
    /\ acc = <<>>
    /\ started = <<>>
    /\ failCause = ""
    /\ lastResp = ""
    /\ OrgIdle
    /\ ToolsIdle

SpecStep == StepInit /\ [][WorkflowNext]_vars

(***************************************************************************)
(* Properties of the workflow.                                             *)
(***************************************************************************)
\* the keys of the envelope
Keys == DOMAIN data

\* the steps that have returned: their key is in the envelope
Merged(k) == StepKeys[k] \in Keys

\* C1: a run enters the six steps in the order Content Analysis, Categorization,
\* Tagging, Relationship Mapping, Optimization, Strategy Creation, each at most
\* once and none skipped; when a step is entered every step before it has
\* returned and its output is in the envelope; a run that is done has run all six.
C1_StagesInOrder ==
    /\ Len(started) <= NumSteps
    /\ \A i \in 1..Len(started) : started[i] = i
    /\ \A i \in 1..Len(started) : \A j \in 1..(i - 1) : Merged(j)
    /\ pc = "done" => /\ Len(started) = NumSteps
                      /\ \A k \in 1..NumSteps : Merged(k)

C1_Witness ==
    /\ pc = "done"
    /\ Len(documents) = MaxDocs
    /\ started = <<1, 2, 3, 4, 5, 6>>

\* C2: the envelope is append-only: a step of the run never changes or removes
\* the value stored under a key that is already in the envelope.
C2_AppendOnly ==
    [][\A key \in Keys : key \in DOMAIN data' /\ data'[key] = data[key]]_vars

C2_Witness ==
    /\ pc = "done"
    /\ Cardinality(Keys) = NumSteps
    /\ Len(documents) = MaxDocs

\* C3: in a per-document step a provider call that fails for one document (it
\* raises, or its answer cannot be used) never ends the run: the step goes on.
C3_ProviderFailureIsolated ==
    ~(pc = "failed" /\ Running \in PerDocSteps
        /\ lastResp \in {"raises", "unparseable", "nondict"})

\* the fallback opinion of step k cannot be told from an answer of the provider
Indistinguishable(k, op) ==
    \E g \in GenuineOpinions(k) : SetPath(g, op.path) = op

\* C4: in every per-document step an unparseable answer yields the step's default
\* opinion, and that opinion is marked so that it differs from every genuine
\* answer of the provider, also from one with the same empty content.
C4_FallbackDistinguishable ==
    (pc = "in_step" /\ Running \in PerDocSteps /\ lastResp = "unparseable")
      => LET op == acc[Len(acc)]
         IN  /\ op = SetPath(DefaultOpinion(Running), op.path)
             /\ ~Indistinguishable(Running, op)

\* C5: once a per-document step has returned, its list holds one opinion per
\* document and the i-th opinion carries the path of the i-th document.
C5_OneOpinionPerDocument ==
    \A k \in PerDocSteps :
        Merged(k) =>
          /\ Len(data[StepKeys[k]]) = Len(documents)
          /\ \A i \in 1..Len(documents) :
                data[StepKeys[k]][i].path = documents[i].path

C5_Witness ==
    /\ Merged(4)
    /\ Len(documents) = MaxDocs
    /\ documents[1].path = DocPath(MaxDocs)
    /\ lastResp = "object"

\* the keys of earlier steps the executor of step k reads
Consumes(k) ==
    CASE k \in {2, 3, 4} -> {"content_analyses"}
      [] k = 5 -> {"tagging_results", "categorizations", "relationship_maps"}
      [] OTHER -> {}

TagSet(f) == Range(f.existing_tags) \cup Range(f.proposed_tags)

\* the documents (positions of analyzer.files) that carry tag t
Carriers(t) == {i \in 1..Len(files) : t \in TagSet(files[i])}

\* analyze_tags has returned (the report leaves analyzer.tag_analysis as it is)
Analyzed == phase \in {"analyzed", "reanalyzed"}

HasEntry(t) == \E i \in 1..Len(tag_analysis) : tag_analysis[i].tag = t
Entry(t) == tag_analysis[CHOOSE i \in 1..Len(tag_analysis) : tag_analysis[i].tag = t]

\* C7: after analyze_tags the frequency of every tag is the number of documents
\* carrying it, a document counting once; a tag no document carries has no
\* entry; this is so after a second analyze_tags on the same files as well.
C7_FrequencyExact ==
    Analyzed =>
      \A t \in Tags :
        /\ HasEntry(t) <=> Carriers(t) # {}
        /\ HasEntry(t) => Entry(t).frequency = Cardinality(Carriers(t))
        /\ Cardinality({i \in 1..Len(tag_analysis) : tag_analysis[i].tag = t}) <= 1

\* a second analyze_tags has run on files one of which names a tag twice
C7_Witness ==
    /\ phase = "reanalyzed"
    /\ \E i \in 1..Len(files) :
         Range(files[i].existing_tags) \cap Range(files[i].proposed_tags) # {}
    /\ \E t \in Tags : HasEntry(t) /\ Entry(t).frequency = MaxFiles

\* C8: relatedTags is symmetric: B is in relatedTags(A) exactly if A is in
\* relatedTags(B).
C8_RelatedSymmetric ==
    Analyzed =>
      \A a \in Tags : HasEntry(a) =>
        \A b \in Entry(a).related_tags : HasEntry(b) /\ a \in Entry(b).related_tags

C8_Witness ==
    /\ phase = "analyzed"
    /\ \E a \in Tags : HasEntry(a) /\ Cardinality(Entry(a).related_tags) = 2

\* C9: relatedTags(A) is exactly the set of the tags B other than A that are on
\* at least 2 documents together with A; for the documents {python},
\* {python, api}, {javascript}, python has frequency 2 and api no related tag.
C9_RelatedExact ==
    Analyzed =>
      /\ \A a \in Tags : HasEntry(a) =>
           Entry(a).related_tags =
             {b \in Tags \ {a} : Cardinality(Carriers(a) \cap Carriers(b)) >= 2}
      /\ (Len(files) = 3 /\ TagSet(files[1]) = {Tag("python")}
            /\ TagSet(files[2]) = {Tag("api"), Tag("python")}
            /\ TagSet(files[3]) = {Tag("javascript")})
           => /\ Entry(Tag("python")).frequency = 2
              /\ Entry(Tag("api")).related_tags = {}

\* the three documents {python}, {python, api}, {javascript} have been analyzed
C9_Witness ==
    /\ phase = "analyzed"
    /\ Len(files) = 3
    /\ TagSet(files[1]) = {Tag("python")}
    /\ TagSet(files[2]) = {Tag("api"), Tag("python")}
    /\ TagSet(files[3]) = {Tag("javascript")}
    /\ Entry(Tag("python")).frequency = 2
    /\ Entry(Tag("api")).related_tags = {}

\* the pairs of tags that both meet the minimum frequency and share 2 documents
CandidatePairs(min_freq) ==
    {[tag1 |-> a, tag2 |-> b, overlap |-> Cardinality(Carriers(a) \cap Carriers(b))]
       : a \in Tags, b \in Tags} \cap
    {x \in [tag1 : Tags, tag2 : Tags, overlap : 0..Len(files)] :
        /\ x.tag1 < x.tag2
        /\ Cardinality(Carriers(x.tag1)) >= min_freq
        /\ Cardinality(Carriers(x.tag2)) >= min_freq
        /\ x.overlap >= 2}

\* x is ranked before y: more overlap, or the same overlap and the smaller pair
RankedBefore(x, y) ==
    \/ x.overlap > y.overlap
    \/ /\ x.overlap = y.overlap
       /\ \/ x.tag1 < y.tag1
          \/ x.tag1 = y.tag1 /\ x.tag2 < y.tag2

\* C10: the consolidation candidates of the report are exactly the pairs of tags
\* that both meet the minimum frequency and share at least 2 documents, each
\* once, by overlap descending and, at equal overlap, in lexicographic pair order.
C10_CandidatesRanked ==
    phase = "reported" =>
      LET c == report.overlap_lines
      IN  /\ Range(c) = CandidatePairs(report.min_freq)
          /\ Len(c) = Cardinality(Range(c))
          /\ \A i \in 1..Len(c) : \A j \in (i + 1)..Len(c) : RankedBefore(c[i], c[j])

(***************************************************************************)
(* Properties of the walk, of the content type and of the rules.           *)
(***************************************************************************)
\* C11: a second run of the command on the same tree with the same minimum
\* frequency gives the same result as the first: the same files with the same
\* proposed-tag lists, the same tag rows in the same order, the same
\* consolidation candidates in the same order, whatever order a process
\* iterates its sets and maps in.
C11_Deterministic ==
    (previous.ran /\ phase = "reported") =>
      /\ files = previous.files
      /\ report = previous.report

\* the condition strings of the rules, read as the Python expressions they are,
\* for a file f
ConditionHolds(rule, f) ==
    CASE rule.rule_id = "system_prompt_location" ->
           f.content_type = "prompt" /\ Contains(lower(f.name), "system")
      [] rule.rule_id = "project_specific_agents" ->
           /\ f.content_type = "agent"
           /\ \E project \in {"RepRally", "Trinote", "specific_project"} :
                 project \in Range(f.directory_context)
      [] rule.rule_id = "blog_content_centralization" ->
           f.content_type = "blog" \/ Contains(lower(f.name), "blog")
      [] rule.rule_id = "research_by_topic" -> f.content_type = "research"
      [] rule.rule_id = "workflow_by_domain" -> f.content_type = "workflow"

\* rule i is tried before rule j: lower priority first, declaration order at
\* equal priority
TriedBefore(rules, i, j) ==
    \/ rules[i].priority < rules[j].priority
    \/ rules[i].priority = rules[j].priority /\ i < j

\* the category rule resolution gives a file: that of the first rule tried whose
\* condition holds, "uncategorized" when there is none
Resolve(rules, f) ==
    LET matching == {i \in 1..Len(rules) : ConditionHolds(rules[i], f)}
    IN  IF matching = {} THEN "uncategorized"
        ELSE rules[CHOOSE i \in matching :
                     \A j \in matching \ {i} : TriedBefore(rules, i, j)].category

\* C12: once the rules are generated and the report is made, every document has
\* a category: that of the first rule, in ascending priority and then in
\* declaration order, whose condition holds for it, and "uncategorized" when no
\* rule matches; the entry is never missing.
C12_RuleResolution ==
    phase = "reported" =>
      \A i \in 1..Len(files) :
        /\ HasKey(files[i], "category")
        /\ files[i].category = Resolve(category_rules, files[i])

\* the rule "All blog content should be centralized regardless of topic"
BlogRule ==
    CHOOSE rule \in Range(CategoryRules) : rule.rule_id = "blog_content_centralization"

\* C13: the document "My trip.md" with directory context ["AI", "Blog"] and no
\* other signal has content type blog and matches the blog-centralization rule,
\* which has priority 1 and category AI/Blog.
C13_BlogByDirectory ==
    \A i \in 1..Len(files) :
      (/\ files[i].name = "My trip.md"
       /\ files[i].directory_context = <<"AI", "Blog">>
       /\ files[i].description = ""
       /\ files[i].existing_tags = <<>>)
        => /\ files[i].content_type = "blog"
           /\ ConditionHolds(BlogRule, files[i])
           /\ BlogRule.priority = 1
           /\ BlogRule.category = "AI/Blog"

\* the content types that have a signature, in the fixed order
ContentTypes == <<"blog", "prompt", "agent", "workflow", "research", "thread",
                  "configuration", "documentation", "draft">>

\* the signature of a content type matches a lower-cased filename and a
\* directory context
Signature(type, filename_lower, context) ==
    CASE type = "blog" ->
           "blog" \in context \/ any_in({"blog", "post", "article"}, filename_lower)
      [] type \in {"prompt", "agent", "workflow", "research"} ->
           type \in context \/ Contains(filename_lower, type)
      [] type = "thread" -> any_in({"thread", "conversation"}, filename_lower)
      [] type = "configuration" -> any_in({"config", "settings"}, filename_lower)
      [] type = "documentation" ->
           any_in({"readme", "guide", "tutorial", "doc"}, filename_lower)
      [] type = "draft" -> any_in({"draft", "wip", "temp"}, filename_lower)

\* the positions of ContentTypes whose signature matches file f
MatchingSignatures(f) ==
    {k \in 1..Len(ContentTypes) :
        Signature(ContentTypes[k], lower(f.name), Range(f.directory_context))}

\* C14: the content type of every extracted document is the first content type,
\* in the order blog, prompt, agent, workflow, research, thread, configuration,
\* documentation, draft, whose signature matches its filename and directory
\* context, and general when none matches; it is one of these ten values.
C14_FirstSignature ==
    phase = "extracted" =>
      \A i \in 1..Len(files) :
        LET m == MatchingSignatures(files[i])
        IN  /\ files[i].content_type \in Range(ContentTypes) \cup {"general"}
            /\ m = {} => files[i].content_type = "general"
            /\ m # {} => files[i].content_type =
                           ContentTypes[CHOOSE k \in m : \A j \in m : k <= j]

\* a document that matches the blog and the prompt signature has been extracted
C14_Witness ==
    /\ phase = "extracted"
    /\ \E i \in 1..Len(files) :
         /\ {1, 2} \subseteq MatchingSignatures(files[i])
         /\ files[i].content_type = "blog"

\* the positions of the nodes of the tree below node: pos is the position of
\* node, a position is the list of child indices from the root
RECURSIVE PositionsBelow(_, _)
PositionsBelow(node, pos) ==
    {pos} \cup UNION {PositionsBelow(Children(node)[i], Append(pos, i))
                        : i \in 1..Len(Children(node))}

Positions == PositionsBelow(tree_data, <<>>)

\* the node at a position below node
RECURSIVE NodeBelow(_, _)
NodeBelow(node, pos) ==
    IF pos = <<>> THEN node ELSE NodeBelow(Children(node)[Head(pos)], Tail(pos))

NodeAt(pos) == NodeBelow(tree_data, pos)

\* the file nodes whose name ends in .md
MarkdownPositions ==
    {pos \in Positions :
        /\ TypeIs(NodeAt(pos), "file")
        /\ HasKey(NodeAt(pos), "name")
        /\ endswith(NodeAt(pos).name, ".md")}

\* p comes before q in depth-first pre-order: p is an ancestor of q, or p is in
\* an earlier child at the first place where they part
Precedes(p, q) ==
    \/ Len(p) < Len(q) /\ SubSeq(q, 1, Len(p)) = p
    \/ \E k \in 1..Len(p) :
         /\ k <= Len(q)
         /\ SubSeq(p, 1, k - 1) = SubSeq(q, 1, k - 1)
         /\ p[k] < q[k]

\* the place in the records of the markdown file node at pos
RecordIndex(pos) == 1 + Cardinality({q \in MarkdownPositions : Precedes(q, pos)})

\* C15: when the walk returns there is exactly one record per file node whose
\* name ends in .md, below whatever node it lies, and no other record; the
\* records are in the depth-first pre-order of their nodes in the tree.
C15_OneRecordPerMarkdownFile ==
    phase = "extracted" =>
      /\ Len(files) = Cardinality(MarkdownPositions)
      /\ \A pos \in MarkdownPositions :
           /\ RecordIndex(pos) <= Len(files)
           /\ files[RecordIndex(pos)].path = NodeAt(pos).path
           /\ files[RecordIndex(pos)].name = NodeAt(pos).name

\* a directory holding a non-markdown file node that has a markdown child, and
\* after it a markdown file: both markdown files are extracted, in tree order
C15_Witness ==
    /\ phase = "extracted"
    /\ Len(files) = 2
    /\ files[1].path = "/d1/f1.txt/f1.md"
    /\ files[2].path = "/d1/f2.md"

\* the names of the directory nodes above pos, root first
AncestorDirectories(pos) ==
    LET above == [k \in 1..Len(pos) |-> NodeAt(SubSeq(pos, 1, k - 1))]
        dirs == SelectSeq(above, LAMBDA n : TypeIs(n, "directory"))
    IN  [k \in 1..Len(dirs) |-> dirs[k].name]

\* C16: the directory context of every extracted document is the list of the
\* names of the directory nodes from the tree root down to the parent of its
\* file node.
C16_DirectoryContext ==
    phase = "extracted" =>
      \A pos \in MarkdownPositions :
        /\ RecordIndex(pos) <= Len(files)
        /\ files[RecordIndex(pos)].directory_context = AncestorDirectories(pos)

\* C17: a file node without name or without path never makes the walk fail, and
\* when the walk has returned every markdown file node that has both has its
\* record.
C17_MalformedSkipped ==
    /\ phase # "failed"
    /\ phase = "extracted" =>
         \A pos \in MarkdownPositions :
           HasKey(NodeAt(pos), "path") =>
             \E i \in 1..Len(files) : files[i].path = NodeAt(pos).path

\* the normalized name of every tag: trimmed and lower-cased
NormalName == [t \in Tags |-> lower(strip(TagName[t]))]

\* C18: tags that differ only in letter case or in surrounding blanks are one
\* tag of the statistics: no two entries have the same normalized name, and
\* the frequency of an entry counts the documents carrying any tag of its
\* normalized name.
C18_TagsNormalized ==
    Analyzed =>
      \A i \in 1..Len(tag_analysis) :
        /\ \A j \in 1..Len(tag_analysis) :
             NormalName[tag_analysis[i].tag] = NormalName[tag_analysis[j].tag] => i = j
        /\ tag_analysis[i].frequency =
             Cardinality({k \in 1..Len(files) :
                            \E t \in TagSet(files[k]) :
                               NormalName[t] = NormalName[tag_analysis[i].tag]})

(***************************************************************************)
(* Properties of the result of the workflow.                               *)
(***************************************************************************)
\* the opinion is the default of step k and no answer of the provider: it can
\* only come from the fallback
IsFallback(k, op) ==
    /\ op = SetPath(DefaultOpinion(k), op.path)
    /\ ~Indistinguishable(k, op)

\* the documents and stages a strategy lists as degraded
Degraded(strategy) ==
    IF "degraded" \in DOMAIN strategy THEN strategy.degraded ELSE {}

\* C19: when a run is done, every document whose opinion in some stage is the
\* fallback default is listed with that stage as degraded in the final strategy
\* of the result; no result leaves a fallback out.
C19_DegradedListed ==
    pc = "done" =>
      \A k \in PerDocSteps :
        \A i \in 1..Len(data[StepKeys[k]]) :
          LET op == data[StepKeys[k]][i]
          IN  IsFallback(k, op) =>
                <<op.path, StepNames[k]>> \in Degraded(data["final_strategy"])

\* what the agent of step k can return
AgentResults(k) ==
    {Agent(k, r).value : r \in {x \in Responses(k) : Agent(k, x).exc = ""}}

\* C20: the result of a run that is done holds the output of all six steps and
\* nothing else: the four lists with one opinion per document, the one
\* optimization and the one final strategy; the last step was handed the
\* envelope with the five outputs before it.
C20_ResultComplete ==
    /\ pc = "done" =>
         /\ Keys = {StepKeys[k] : k \in 1..NumSteps}
         /\ \A k \in PerDocSteps :
              /\ Len(data[StepKeys[k]]) = Len(documents)
              /\ \A i \in 1..Len(documents) :
                   data[StepKeys[k]][i] \in
                     {SetPath(op, documents[i].path)
                        : op \in GenuineOpinions(k) \cup {DefaultOpinion(k)}}
         /\ data["optimization"] \in AgentResults(5)
         /\ data["final_strategy"] \in AgentResults(6)
    /\ (pc = "in_step" /\ stage = NumSteps) =>
         /\ steps[stage] = NumSteps
         /\ Keys = {StepKeys[k] : k \in 1..(NumSteps - 1)}

\* a run on the most documents is done and its last step got an answer
C20_Witness ==
    /\ pc = "done"
    /\ Len(documents) = MaxDocs
    /\ lastResp = "object"
    /\ data["final_strategy"] \in GenuineOpinions(6)
    /\ data["optimization"] = default_optimization

(***************************************************************************)
(* Properties of the tag table and of the consolidation candidates.        *)
(***************************************************************************)
\* the tags that have an entry
EntryTags == {tag_analysis[i].tag : i \in 1..Len(tag_analysis)}

\* C23: the rows of the tag table of the report are in descending order of
\* frequency, and rows of equal frequency are in the lexicographic order of
\* their tags.
C23_TagRowsOrdered ==
    phase = "reported" =>
      LET rows == report.tag_rows
      IN  \A i \in 1..Len(rows) : \A j \in (i + 1)..Len(rows) :
            \/ rows[i].frequency > rows[j].frequency
            \/ rows[i].frequency = rows[j].frequency /\ rows[i].tag < rows[j].tag

\* the tags that have a row in the tag table, the tags of the candidates
RowTags == {report.tag_rows[i].tag : i \in 1..Len(report.tag_rows)}
CandidateTags ==
    UNION {{report.overlapping_tags[i].tag1, report.overlapping_tags[i].tag2}
             : i \in 1..Len(report.overlapping_tags)}

\* C24: a tag has a row in the tag table of the report exactly if some document
\* carries it and the number of documents carrying it is at least the minimum
\* frequency; a tag below the minimum frequency has no row and is in no
\* consolidation candidate; it has one row at most.
C24_MinFrequencyFilter ==
    phase = "reported" =>
      /\ \A t \in Tags :
           t \in RowTags <=>
             (Carriers(t) # {} /\ Cardinality(Carriers(t)) >= report.min_freq)
      /\ \A t \in CandidateTags : Cardinality(Carriers(t)) >= report.min_freq
      /\ Len(report.tag_rows) = Cardinality(RowTags)

\* the documents {python}, {python, api}, {javascript} reported with minimum
\* frequency 2: python has the only row
C24_Witness ==
    /\ phase = "reported"
    /\ report.min_freq = 2
    /\ Len(files) = 3
    /\ TagSet(files[1]) = {Tag("python")}
    /\ TagSet(files[2]) = {Tag("api"), Tag("python")}
    /\ TagSet(files[3]) = {Tag("javascript")}
    /\ RowTags = {Tag("python")}

\* the candidate of the tags a and b, if there is one
CandidatesOf(a, b) ==
    {i \in 1..Len(report.overlapping_tags) :
        {report.overlapping_tags[i].tag1, report.overlapping_tags[i].tag2} = {a, b}}

\* the paths of the extracted documents are pairwise distinct
DistinctPaths == \A i, j \in 1..Len(files) : files[i].path = files[j].path => i = j

\* C29: when the documents have pairwise distinct paths, two different tags that
\* both meet the minimum frequency are a consolidation candidate exactly if one
\* is in relatedTags of the other, and the overlap of the candidate is the
\* number of documents that carry both.
C29_CandidatesAgreeWithRelated ==
    (phase = "reported" /\ DistinctPaths) =>
      \A a \in EntryTags : \A b \in EntryTags \ {a} :
        (Entry(a).frequency >= report.min_freq /\ Entry(b).frequency >= report.min_freq)
          => /\ CandidatesOf(a, b) # {} <=> b \in Entry(a).related_tags
             /\ \A i \in CandidatesOf(a, b) :
                  report.overlapping_tags[i].overlap =
                    Cardinality(Carriers(a) \cap Carriers(b))

\* a report with a candidate, and with two tags that meet the minimum frequency
\* and share one document only
C29_Witness ==
    /\ phase = "reported"
    /\ Len(report.overlapping_tags) >= 1
    /\ \E a \in EntryTags : \E b \in EntryTags \ {a} :
         /\ Entry(a).frequency >= report.min_freq
         /\ Entry(b).frequency >= report.min_freq
         /\ Cardinality(Carriers(a) \cap Carriers(b)) = 1
         /\ CandidatesOf(a, b) = {}

(***************************************************************************)
(* Properties of the tree command.                                         *)
(***************************************************************************)
\* the command has written a JSON tree, the command has written a text tree
JsonShown == tool = "shown" /\ output.json_output /\ output.tree_data # None
TextShown == tool = "shown" /\ ~output.json_output

\* the nodes of a JSON tree
RECURSIVE JsonNodes(_)
JsonNodes(node) ==
    {node} \cup UNION {JsonNodes(Children(node)[i]) : i \in 1..Len(Children(node))}

\* the last component of a path, and the path without it
BaseName(path) == LET parts == PathParts(path) IN parts[Len(parts)]
DirName(path) == SubSeq(path, 1, Len(path) - Len(BaseName(path)) - 1)

\* the markdown files of the directory dir that the command can reach: those
\* below no hidden directory and above the depth
RECURSIVE ReachableMarkdown(_, _, _)
ReachableMarkdown(dir, path, level) ==
    IF level >= depth THEN {}
    ELSE {path \o "/" \o dir.entries[i].name
            : i \in {k \in 1..Len(dir.entries) :
                       /\ dir.entries[k].kind = "file"
                       /\ ~IsHidden(dir.entries[k].name)
                       /\ IsMd(dir.entries[k].name)}}
           \cup UNION {ReachableMarkdown(dir.entries[i],
                                         path \o "/" \o dir.entries[i].name, level + 1)
                         : i \in {k \in 1..Len(dir.entries) :
                                    /\ dir.entries[k].kind = "dir"
                                    /\ ~IsHidden(dir.entries[k].name)}}

\* C21: every file node of the JSON the tree command writes has the keys name,
\* path and type, the name being the name of the file; the organize command
\* given that JSON never fails in analyze_tree_json, and extracts one record
\* for every markdown file of the tree.
C21_TreeJsonIsExtractorInput ==
    /\ JsonShown =>
         \A node \in JsonNodes(output.tree_data) :
           TypeIs(node, "file") =>
             /\ {"name", "path", "type"} \subseteq DOMAIN node
             /\ node.name = BaseName(node.path)
    /\ phase # "failed"
    /\ phase = "extracted" =>
         {files[i].path : i \in 1..Len(files)}
           = ReachableMarkdown(directory, directory.name, 0)

\* the children of a JSON node or the items of one directory of the text tree,
\* as a list of [name, is_directory], are in order: directories before files,
\* each group by lower-cased name, no hidden name
Ordered(entries) ==
    /\ \A i \in 1..Len(entries) : ~IsHidden(entries[i].name)
    /\ \A i \in 1..Len(entries) : \A j \in (i + 1)..Len(entries) :
         /\ ~(~entries[i].is_directory /\ entries[j].is_directory)
         /\ entries[i].is_directory = entries[j].is_directory
              => ~StrLess(lower(entries[j].name), lower(entries[i].name))

\* the children of a JSON node as such a list
JsonEntries(node) ==
    [i \in 1..Len(Children(node)) |->
       [name |-> BaseName(Children(node)[i].path),
        is_directory |-> TypeIs(Children(node)[i], "directory")]]

\* the items of the text tree that lie in the directory at path, in their order
ItemsIn(path) ==
    SelectSeq(output.lines, LAMBDA item : DirName(item.path) = path)

\* the items of the text tree below the k-th item directly follow it: every
\* item between it and an item below it is below it too
Below(path, above) ==
    Len(path) > Len(above) /\ SubSeq(path, 1, Len(above) + 1) = above \o "/"

ContentsFollow(lines) ==
    \A k \in 1..Len(lines) : \A j \in 1..Len(lines) :
      Below(lines[j].path, lines[k].path) =>
        /\ lines[k].is_directory
        /\ k < j
        /\ \A m \in (k + 1)..j : Below(lines[m].path, lines[k].path)

\* C22: in the JSON tree and in the text tree alike, at every directory level
\* the subdirectories come before the files, each of the two groups is in the
\* order of the lower-cased names, no entry whose name starts with '.' is
\* there, and what a directory holds follows the directory directly.
C22_DirectoriesFirstSorted ==
    /\ JsonShown =>
         \A node \in JsonNodes(output.tree_data) : Ordered(JsonEntries(node))
    /\ TextShown =>
         /\ \A path \in {directory.name} \cup {output.lines[i].path
                                                 : i \in 1..Len(output.lines)} :
              Ordered(ItemsIn(path))
         /\ ContentsFollow(output.lines)
         /\ \A i \in 1..Len(output.lines) :
              output.lines[i].level = Len(PathParts(output.lines[i].path)) - 2

\* the text tree of a directory that iterdir() yields as b.txt, A_dir, with
\* b-note.md in A_dir
C22_Witness ==
    /\ TextShown
    /\ Len(directory.entries) = 2
    /\ directory.entries[1].name = "b.txt"
    /\ directory.entries[2].name = "A_dir"
    /\ [i \in 1..Len(output.lines) |-> output.lines[i].path]
         = <<"vault/A_dir", "vault/A_dir/b-note.md", "vault/b.txt">>

\* the entries of the directory dir with their levels, those in hidden
\* directories and the hidden ones left out
RECURSIVE VisibleEntries(_, _, _)
VisibleEntries(dir, path, level) ==
    UNION {{[path |-> path \o "/" \o dir.entries[i].name, level |-> level]}
             \cup (IF dir.entries[i].kind = "dir"
                     THEN VisibleEntries(dir.entries[i],
                                         path \o "/" \o dir.entries[i].name, level + 1)
                     ELSE {})
             : i \in {k \in 1..Len(dir.entries) : ~IsHidden(dir.entries[k].name)}}

\* the entries of the JSON tree below node with their levels
RECURSIVE JsonLevels(_, _)
JsonLevels(node, level) ==
    UNION {{[path |-> Children(node)[i].path, level |-> level]}
             \cup JsonLevels(Children(node)[i], level + 1)
             : i \in 1..Len(Children(node))}

\* the entries of the output with their levels
OutputEntries ==
    IF output.json_output
      THEN (IF output.tree_data = None THEN {} ELSE JsonLevels(output.tree_data, 0))
      ELSE {[path |-> output.lines[i].path, level |-> output.lines[i].level]
              : i \in 1..Len(output.lines)}

\* C25: with depth D the output of the tree command, JSON or text, holds exactly
\* the entries at the levels 0 to D-1 below the directory it is given, the
\* entries of that directory being at level 0: none at level D or deeper, and
\* every one above that is not hidden.
C25_DepthLimit ==
    tool = "shown" =>
      OutputEntries
        = {e \in VisibleEntries(directory, directory.name, 0) : e.level < depth}

(***************************************************************************)
(* Properties of the filter command                                        *)
(***************************************************************************)
\* the tags of a file: the items of a list, a scalar as the one tag
TagsOfFile(metadata) ==
    IF ~HasKey(metadata, "tags") THEN {}
    ELSE {lower(metadata.tags.items[i]) : i \in 1..Len(metadata.tags.items)} \ {""}

\* one --field condition as given: the field is there and equals the value
FieldConditionHolds(metadata, given) ==
    LET cond == ParseField(given)
    IN  /\ HasKey(metadata, cond.key)
        /\ ~metadata[cond.key].is_list
        /\ lower(metadata[cond.key].items[1]) = lower(cond.value)

\* one --in condition as given: the field is there and its value, or one of
\* the items of its list, is among the values listed
InConditionHolds(metadata, given) ==
    LET cond == ParseFieldIn(given)
        listed == {lower(cond.values[i]) : i \in 1..Len(cond.values)}
    IN  /\ HasKey(metadata, cond.key)
        /\ \E i \in 1..Len(metadata[cond.key].items) :
              lower(metadata[cond.key].items[i]) \in listed

\* all the conditions given on the command line hold together
AllConditionsHold(metadata) ==
    /\ \A i \in 1..Len(options.tags) : lower(options.tags[i]) \in TagsOfFile(metadata)
    /\ \A i \in 1..Len(options.field) : FieldConditionHolds(metadata, options.field[i])
    /\ \A i \in 1..Len(options.field_in) : InConditionHolds(metadata, options.field_in[i])

\* the paths of the files returned
ReturnedPaths == {matching_files[i].path : i \in 1..Len(matching_files)}

\* C26: the filter command returns a markdown file if and only if every
\* condition given holds for it: every required tag is among its tags, every
\* --field condition has the field present and equal to the value, and every
\* --in condition has the field present with its value, or one item of its
\* list, among the listed values; all comparisons ignore case.
C26_ReturnedIffAllConditions ==
    tool = "filtered" =>
      \A i \in 1..Len(md_files) :
        md_files[i].path \in ReturnedPaths <=> AllConditionsHold(md_files[i].metadata)

\* the same with every field given at most once in --field and in --in
KeysOnce(conds) ==
    \A i, j \in 1..Len(conds) : conds[i].key = conds[j].key => i = j

C26_ReturnedIffAllConditions_KeysOnce ==
    (/\ tool = "filtered"
     /\ KeysOnce([i \in 1..Len(options.field) |-> ParseField(options.field[i])])
     /\ KeysOnce([i \in 1..Len(options.field_in) |-> ParseFieldIn(options.field_in[i])]))
      => \A i \in 1..Len(md_files) :
           md_files[i].path \in ReturnedPaths <=> AllConditionsHold(md_files[i].metadata)

(***************************************************************************)
(* Properties of the add-description command                               *)
(***************************************************************************)
\* the file has a description: the key is in its frontmatter
HasDescription(file) == "description" \in DOMAIN file.metadata

\* the body of the file is empty or white space
EmptyContent(file) == strip(file.content) = ""

\* the file after the call carries the description the provider gave, and
\* nothing else of it differs: the other keys and the body, as read, are kept
DescriptionWritten(before, after, request) ==
    /\ HasDescription(after)
    /\ after.metadata.description = strip(request.text)
    /\ DOMAIN after.metadata = DOMAIN before.metadata \cup {"description"}
    /\ \A k \in DOMAIN before.metadata \ {"description"} :
          after.metadata[k] = before.metadata[k]
    /\ strip(after.content) = strip(before.content)
    /\ request.content = strip(before.content)

\* C27: process_single_file writes the generated description into the
\* frontmatter of a file that has content and no description; without force a
\* file that has a description is left unchanged and nothing is requested for
\* it; a file with empty content is left unchanged; with force the description
\* that is there is replaced by the generated one.
C27_ProcessSingleFile ==
    [][tool = "ready" =>
         /\ (~EmptyContent(post) /\ ~HasDescription(post)) =>
               /\ Len(requests') = 1
               /\ ~requests'[1].raised => DescriptionWritten(post, post', requests'[1])
         /\ (HasDescription(post) /\ ~force) =>
               /\ post' = post
               /\ requests' = <<>>
         /\ EmptyContent(post) =>
               /\ post' = post
               /\ requests' = <<>>
         /\ (~EmptyContent(post) /\ HasDescription(post) /\ force) =>
               /\ Len(requests') = 1
               /\ ~requests'[1].raised => DescriptionWritten(post, post', requests'[1])
      ]_vars

\* a forced run has replaced a description by the one generated
C27_Witness ==
    /\ tool = "processed"
    /\ force
    /\ Len(requests) = 1
    /\ post.metadata = [title |-> "Note", description |-> "A short note."]

(***************************************************************************)
(* Properties of the context of the relationship-mapping stage             *)
(***************************************************************************)
\* the positions of the documents other than document i, in document order
RECURSIVE OthersFrom(_, _, _)
OthersFrom(n, i, k) ==
    IF k > n THEN <<>>
    ELSE IF k = i THEN OthersFrom(n, i, k + 1)
    ELSE <<k>> \o OthersFrom(n, i, k + 1)

\* C28: in the relationship-mapping stage the context sent for document i
\* never holds the opinion of document i, and it holds at most 10 opinions: the
\* first 10 of the content-analysis opinions of the other documents, in
\* document order.
C28_ContextOfOthers ==
    tool = "prompted" =>
      LET analyses == data["content_analyses"]
      IN  /\ Len(prompt) = Len(analyses)
          /\ \A i \in 1..Len(prompt) :
                LET sent == prompt[i].other_docs
                    others == OthersFrom(Len(analyses), i, 1)
                IN  /\ prompt[i].current_doc = analyses[i]
                    /\ \A j \in 1..Len(sent) : sent[j].path # analyses[i].path
                    /\ Len(sent) <= 10
                    /\ Len(sent) = IF Len(others) < 10 THEN Len(others) ELSE 10
                    /\ \A j \in 1..Len(sent) : sent[j] = analyses[others[j]]

\* more than 10 other documents: the context of a document holds 10 opinions
\* and leaves the opinion of a later document out
C28_Witness ==
    /\ tool = "prompted"
    /\ Len(prompt) > 11
    /\ Len(prompt[1].other_docs) = 10
    /\ prompt[1].other_docs[1] = data["content_analyses"][2]
    /\ Len(prompt[Len(prompt)].other_docs) = 10

(***************************************************************************)
(* Termination of the workflow run                                         *)
(***************************************************************************)
\* C30: for any finite tree, if every call of the analysis provider returns,
\* the run of the workflow eventually reaches Done.
C30_EventuallyDone ==
    [](lastResp # "raises") => <>(pc = "done")

\* the same when every call returns and what it returns is a JSON object or
\* text that is no JSON at all
C30_EventuallyDone_Objects ==
    [](lastResp \notin {"raises", "nondict"}) => <>(pc = "done")

\* every run comes to an end, Done or failed: no step waits and no loop repeats
C30_RunEnds ==
    <>(pc \in {"done", "failed"})

====
